---- MODULE Spec2Model ----
(***************************************************************************)
(* State-machine model of the DotNation crowdfunding contract              *)
(* (src/donation_platform/lib.rs, DonationPlatformV2).                     *)
(*                                                                         *)
(* The contract storage is the record `self`, field for field.  Every      *)
(* message is one action.  A message that calls env().transfer is split at *)
(* the transfer: the part before it runs in the calling step and pushes a  *)
(* frame holding the message's local variables (in particular its local    *)
(* copy of the campaign) on `stack`; while the frame is on the stack the   *)
(* receiving account runs and may call any message again; ExternalReturn   *)
(* pops the frame and runs the rest of the message.  A transfer that fails, *)
(* or that goes to an account without code, runs nothing and is part of    *)
(* the step of the message that makes it.                                  *)
(*                                                                         *)
(* Balances are in planck and timestamps in milliseconds, as in the        *)
(* source.  Strings (title, description) are modelled by their length.     *)
(* A message that returns Err keeps the writes it made before returning,   *)
(* as the source's own tests observe it.                                   *)
(***************************************************************************)
EXTENDS Integers, Sequences, FiniteSets, TLC

VARIABLES
    self,       \* the storage struct DonationPlatformV2
    now,        \* env().block_timestamp()
    stack,      \* messages suspended in an external call, innermost last
    transfers,  \* successful env().transfer calls, counted per purpose
    payouts     \* what those calls have paid out, summed per campaign

vars == <<self, now, stack, transfers, payouts>>

----------------------------------------------------------------------------
(* Bounds of the model *)

MaxCampaigns == 1
MaxDonations == 2
MaxDepth == 1
HistCap == 2
MaxExternal == 2
MaxCalls == 1
MaxRounds == 1
MaxPool == 100
MaxBatchCampaigns == 2
\* messages the payee of an external call sends where a second one matters
PayeeCalls == 2
\* the sum per campaign up to which payouts are added up
PayCap == 30000000

(* Program constants *)

MIN_DONATION == 1000000
FEE_PERCENT == 3
APPROVAL_THRESHOLD == 66
BASIS_POINTS == 10000
MIN_DEADLINE_OFFSET == 3600000
MS_PER_DAY == 86400000
DEFAULT_MAX_BATCH_SIZE == 50
MAX_TITLE_LEN == 100
MAX_DESCRIPTION_LEN == 1000
MAX_MILESTONE_DESCRIPTION_LEN == 200
\* 100_000_000_000_000 and 1_000_000_000_000_000 planck, and 31_536_000_000 ms,
\* in units of 10^6: the literals themselves do not fit the integers of TLC.
MILLION == 1000000
MAX_DONATION_MILLIONS == 100000000
MAX_GOAL_MILLIONS == 1000000000
MAX_DEADLINE_OFFSET_MILLIONS == 31536

\* x > hi * 10^6, computed without forming hi * 10^6
ExceedsMillions(x, hi) ==
    \/ x \div MILLION > hi
    \/ (x \div MILLION = hi /\ x % MILLION > 0)

----------------------------------------------------------------------------
(* Accounts and input sets *)

Admin == "admin"
ZeroAccount == "zero"
NoRound == -1
NoAccount == "none"

Accounts == {"admin", "bob", "carol"}

\* The accounts that hold code: paying one of them runs it before transfer returns
Contracts == {"carol"}

----------------------------------------------------------------------------
(* Small helpers *)

\* Mapping::insert
Min(a, b) == IF a < b THEN a ELSE b

Insert(m, k, v) == [x \in DOMAIN m \cup {k} |-> IF x = k THEN v ELSE m[x]]

RECURSIVE SumAmounts(_)
SumAmounts(ds) ==
    IF ds = <<>> THEN 0 ELSE Head(ds).amount + SumAmounts(Tail(ds))

RECURSIVE DonorTotal(_, _)
\* the loop "for donation in donations { if donation.donor == caller { sum += amount } }"
DonorTotal(ds, donor) ==
    IF ds = <<>> THEN 0
    ELSE (IF Head(ds).donor = donor THEN Head(ds).amount ELSE 0)
         + DonorTotal(Tail(ds), donor)

Donations(s, cid) ==
    IF cid \in DOMAIN s.campaign_donations THEN s.campaign_donations[cid] ELSE <<>>

\* refund_claimed.get(key).unwrap_or(false)
RefundClaimed(s, cid, donor) ==
    IF <<cid, donor>> \in DOMAIN s.refund_claimed
    THEN s.refund_claimed[<<cid, donor>>] ELSE FALSE

InsertCampaign(s, cid, campaign) ==
    [s EXCEPT !.campaigns = Insert(s.campaigns, cid, campaign)]

Lock(s) == [s EXCEPT !.locked = TRUE]
Unlock(s) == [s EXCEPT !.locked = FALSE]

----------------------------------------------------------------------------
(* Constructor *)

New ==
    [ campaigns |-> <<>>,
      campaign_donations |-> <<>>,
      refund_claimed |-> <<>>,
      campaign_count |-> 0,
      admin |-> Admin,
      locked |-> FALSE,
      version |-> 2,
      max_batch_size |-> DEFAULT_MAX_BATCH_SIZE,
      nft_contract |-> NoAccount,
      nft_enabled |-> FALSE,
      matching_pool_balance |-> 0,
      current_round |-> NoRound,
      matching_rounds |-> <<>>,
      round_count |-> 0,
      unique_donors |-> <<>>,
      milestone_votes |-> <<>>,
      treasury_account |-> Admin ]

----------------------------------------------------------------------------
(* Frames and outcomes *)

NoCampaign ==
    [ owner |-> NoAccount, goal |-> 0, raised |-> 0, deadline |-> 0,
      state |-> "Active", beneficiary |-> NoAccount, donation_count |-> 0,
      matching_round |-> NoRound, matching_amount |-> 0,
      milestones |-> <<>>, uses_milestones |-> FALSE ]

NoTally == [successful |-> 0, failed |-> 0, success_ids |-> <<>>]

\* A message suspended in an external call: `op` is the message, `to` and
\* `value` the transfer, the other fields the message's live local variables.
\* `ok` is the outcome of the external call, `calls` the number of messages
\* the called account has sent back so far.
Frame(op, caller, cid, idx, amount, to, value, campaign, ids, tally) ==
    [ op |-> op, caller |-> caller, cid |-> cid, idx |-> idx, amount |-> amount,
      to |-> to, value |-> value, campaign |-> campaign, ids |-> ids,
      tally |-> tally, ok |-> TRUE, calls |-> 0 ]

Suspend(s, frame) == [s |-> s, susp |-> TRUE, frame |-> frame]

DoneVal(s, res, val) == [s |-> s, susp |-> FALSE, res |-> res, val |-> val]

----------------------------------------------------------------------------
(* create_campaign *)

DeadlineTooEarly(deadline, current_time) ==
    deadline <= current_time + MIN_DEADLINE_OFFSET

DeadlineTooLate(deadline, current_time) ==
    \/ (deadline - current_time) \div MILLION > MAX_DEADLINE_OFFSET_MILLIONS
    \/ /\ (deadline - current_time) \div MILLION = MAX_DEADLINE_OFFSET_MILLIONS
       /\ (deadline - current_time) % MILLION > 0

\* A faulty create_campaign, which takes the id before it validates its input.
CreateCountsFirst(s, caller, title_len, desc_len, goal, deadline, beneficiary, current_time) ==
    LET s1 == [s EXCEPT !.campaign_count = s.campaign_count + 1] IN
    IF title_len = 0 \/ title_len > MAX_TITLE_LEN THEN DoneVal(s1, "InvalidTitle", <<>>)
    ELSE IF desc_len > MAX_DESCRIPTION_LEN THEN DoneVal(s1, "InvalidDescription", <<>>)
    ELSE IF goal = 0 \/ ExceedsMillions(goal, MAX_GOAL_MILLIONS)
         THEN DoneVal(s1, "InvalidGoal", <<>>)
    ELSE IF beneficiary = ZeroAccount THEN DoneVal(s1, "InvalidBeneficiary", <<>>)
    ELSE IF DeadlineTooEarly(deadline, current_time) \/ DeadlineTooLate(deadline, current_time)
         THEN DoneVal(s1, "InvalidDeadline", <<>>)
    ELSE LET campaign ==
                [ owner |-> caller, goal |-> goal, raised |-> 0,
                  deadline |-> deadline, state |-> "Active",
                  beneficiary |-> beneficiary, donation_count |-> 0,
                  matching_round |-> s.current_round, matching_amount |-> 0,
                  milestones |-> <<>>, uses_milestones |-> FALSE ]
         IN DoneVal([s1 EXCEPT
                       !.campaigns = Insert(s.campaigns, s.campaign_count, campaign),
                       !.campaign_donations = Insert(s.campaign_donations, s.campaign_count, <<>>)],
                    "Ok", <<s.campaign_count>>)

create_campaign(s, caller, title_len, desc_len, goal, deadline, beneficiary, current_time) ==
    IF title_len = 0 \/ title_len > MAX_TITLE_LEN THEN DoneVal(s, "InvalidTitle", <<>>)
    ELSE IF desc_len > MAX_DESCRIPTION_LEN THEN DoneVal(s, "InvalidDescription", <<>>)
    ELSE IF goal = 0 \/ ExceedsMillions(goal, MAX_GOAL_MILLIONS)
         THEN DoneVal(s, "InvalidGoal", <<>>)
    ELSE IF beneficiary = ZeroAccount THEN DoneVal(s, "InvalidBeneficiary", <<>>)
    ELSE IF DeadlineTooEarly(deadline, current_time) \/ DeadlineTooLate(deadline, current_time)
         THEN DoneVal(s, "InvalidDeadline", <<>>)
    ELSE LET campaign_id == s.campaign_count
             campaign ==
                [ owner |-> caller, goal |-> goal, raised |-> 0,
                  deadline |-> deadline, state |-> "Active",
                  beneficiary |-> beneficiary, donation_count |-> 0,
                  matching_round |-> s.current_round, matching_amount |-> 0,
                  milestones |-> <<>>, uses_milestones |-> FALSE ]
         IN DoneVal([s EXCEPT
                       !.campaigns = Insert(s.campaigns, campaign_id, campaign),
                       !.campaign_donations = Insert(s.campaign_donations, campaign_id, <<>>),
                       !.campaign_count = s.campaign_count + 1],
                    "Ok", <<campaign_id>>)

----------------------------------------------------------------------------
(* donate / process_donation *)

Fee(amount) == (amount * FEE_PERCENT) \div 100

\* A faulty process_donation, which enters the donation net of the fee in the
\* ledger while raised grows by the gross amount.
RecordDonationNet(s, caller, cid, campaign, donation_amount, current_time) ==
    LET raised == campaign.raised + donation_amount
        updated == [campaign EXCEPT
                      !.raised = raised,
                      !.donation_count = campaign.donation_count + 1,
                      !.state = IF raised >= campaign.goal
                                THEN "Successful" ELSE campaign.state]
        donation == [donor |-> caller, amount |-> donation_amount - Fee(donation_amount)]
    IN [s EXCEPT
          !.campaigns = Insert(s.campaigns, cid, updated),
          !.campaign_donations =
              Insert(s.campaign_donations, cid, Append(Donations(s, cid), donation)),
          !.unique_donors = Insert(s.unique_donors, <<cid, caller>>, TRUE)]

\* A faulty process_donation, for which a campaign succeeds only above its goal.
RecordDonationAboveGoal(s, caller, cid, campaign, donation_amount, current_time) ==
    LET raised == campaign.raised + donation_amount
        updated == [campaign EXCEPT
                      !.raised = raised,
                      !.donation_count = campaign.donation_count + 1,
                      !.state = IF raised > campaign.goal
                                THEN "Successful" ELSE campaign.state]
        donation == [donor |-> caller, amount |-> donation_amount]
    IN [s EXCEPT
          !.campaigns = Insert(s.campaigns, cid, updated),
          !.campaign_donations =
              Insert(s.campaign_donations, cid, Append(Donations(s, cid), donation)),
          !.unique_donors = Insert(s.unique_donors, <<cid, caller>>, TRUE)]

\* lines 592-622: the ledger entry, the raised total, the goal check
RecordDonation(s, caller, cid, campaign, donation_amount, current_time) ==
    LET raised == campaign.raised + donation_amount
        updated == [campaign EXCEPT
                      !.raised = raised,
                      !.donation_count = campaign.donation_count + 1,
                      !.state = IF raised >= campaign.goal
                                THEN "Successful" ELSE campaign.state]
        \* Donation.timestamp is written here and read by no message: left out
        donation == [donor |-> caller, amount |-> donation_amount]
    IN [s EXCEPT
          !.campaigns = Insert(s.campaigns, cid, updated),
          !.campaign_donations =
              Insert(s.campaign_donations, cid, Append(Donations(s, cid), donation)),
          !.unique_donors = Insert(s.unique_donors, <<cid, caller>>, TRUE)]

\* lines 602-603: donation_count is a u32, whose checked_add(1) fails at
\* u32::MAX = 65535 * 65536 + 65535, compared here by halves because the
\* integers of TLC end below it
CountOverflows(count) == count \div 65536 = 65535 /\ count % 65536 = 65535

\* A faulty process_donation, which records the donation before it looks at
\* the state of the campaign.
RecordThenCheck(s, caller, cid, donation_amount, current_time) ==
    IF cid \notin DOMAIN s.campaigns THEN DoneVal(s, "CampaignNotFound", <<>>)
    ELSE LET campaign == s.campaigns[cid]
             s1 == RecordDonation(s, caller, cid, campaign, donation_amount, current_time)
         IN IF campaign.state # "Active" THEN DoneVal(s1, "CampaignNotActive", <<>>)
            ELSE IF current_time > campaign.deadline
                 THEN DoneVal(InsertCampaign(s, cid, [campaign EXCEPT !.state = "Failed"]),
                              "DeadlinePassed", <<>>)
            ELSE DoneVal(s1, "Ok", <<>>)

\* A faulty process_donation, for which the deadline itself is already too late.
RejectAtDeadline(s, caller, cid, donation_amount, current_time) ==
    IF cid \notin DOMAIN s.campaigns THEN DoneVal(s, "CampaignNotFound", <<>>)
    ELSE LET campaign == s.campaigns[cid] IN
         IF campaign.state # "Active" THEN DoneVal(s, "CampaignNotActive", <<>>)
         ELSE IF current_time >= campaign.deadline
              THEN DoneVal(InsertCampaign(s, cid, [campaign EXCEPT !.state = "Failed"]),
                           "DeadlinePassed", <<>>)
         ELSE DoneVal(RecordDonation(s, caller, cid, campaign, donation_amount,
                                     current_time), "Ok", <<>>)

\* lines 577-663, after the fee transfer has succeeded
process_donation_rest(s, caller, cid, donation_amount, current_time) ==
    IF cid \notin DOMAIN s.campaigns THEN DoneVal(s, "CampaignNotFound", <<>>)
    ELSE LET campaign == s.campaigns[cid] IN
         IF campaign.state # "Active" THEN DoneVal(s, "CampaignNotActive", <<>>)
         ELSE IF current_time > campaign.deadline
              THEN DoneVal(InsertCampaign(s, cid, [campaign EXCEPT !.state = "Failed"]),
                           "DeadlinePassed", <<>>)
         ELSE IF CountOverflows(campaign.donation_count)
              THEN DoneVal(s, "InvalidDonationAmount", <<>>)
         ELSE LET s1 == RecordDonation(s, caller, cid, campaign, donation_amount, current_time) IN
              IF s1.nft_enabled /\ s1.nft_contract # NoAccount
              THEN Suspend(s1, Frame("donate_mint", caller, cid, -1, donation_amount,
                                     s1.nft_contract, 0, NoCampaign, <<>>, NoTally))
              ELSE DoneVal(s1, "Ok", <<>>)

\* lines 554-575: validation, fee, fee transfer
process_donation(s, caller, cid, donation_amount, current_time) ==
    IF donation_amount < MIN_DONATION THEN DoneVal(s, "InvalidDonationAmount", <<>>)
    ELSE IF ExceedsMillions(donation_amount, MAX_DONATION_MILLIONS)
         THEN DoneVal(s, "InvalidDonationAmount", <<>>)
    ELSE IF Fee(donation_amount) > 0
         THEN Suspend(s, Frame("donate", caller, cid, -1, donation_amount,
                               s.treasury_account, Fee(donation_amount),
                               NoCampaign, <<>>, NoTally))
         ELSE process_donation_rest(s, caller, cid, donation_amount, current_time)

\* A faulty guard, which never finds the lock held.
LockNeverHeld(s) == FALSE

\* "if self.locked { return Err(ReentrantCall) }"
LockHeld(s) == s.locked

\* A faulty epilogue, which returns without clearing the lock.
KeepLocked(o) == o

\* the closing "self.locked = false; result" of a guarded message
Release(o) == IF o.susp THEN o ELSE DoneVal(Unlock(o.s), o.res, o.val)

donate(s, caller, cid, donation_amount, current_time) ==
    IF LockHeld(s) THEN DoneVal(s, "ReentrantCall", <<>>)
    ELSE Release(process_donation(Lock(s), caller, cid, donation_amount, current_time))

----------------------------------------------------------------------------
(* withdraw_funds / process_withdrawal / withdraw_funds_batch *)

\* lines 759-761
process_withdrawal_finish(s, cid, campaign) ==
    DoneVal(InsertCampaign(s, cid, [campaign EXCEPT !.state = "Withdrawn"]), "Ok", <<>>)

NetPayable(campaign) ==
    LET fee_total == (campaign.raised * FEE_PERCENT) \div 100
        net_raised == campaign.raised - fee_total
    IN net_raised + campaign.matching_amount

\* A faulty process_withdrawal, which marks a campaign without funds Withdrawn.
WithdrawNothing(s, caller, cid, current_time, op, ids, tally) ==
    IF cid \notin DOMAIN s.campaigns THEN DoneVal(s, "CampaignNotFound", <<>>)
    ELSE LET campaign == s.campaigns[cid] IN
         IF caller # campaign.owner /\ caller # s.admin
         THEN DoneVal(s, "NotCampaignOwner", <<>>)
         ELSE IF campaign.state = "Withdrawn" THEN DoneVal(s, "FundsAlreadyWithdrawn", <<>>)
         ELSE IF campaign.state # "Successful" /\ ~(current_time > campaign.deadline)
              THEN DoneVal(s, "GoalNotReached", <<>>)
         ELSE IF NetPayable(campaign) > 0
              THEN Suspend(s, Frame(op, caller, cid, -1, 0, campaign.beneficiary,
                                    NetPayable(campaign), campaign, ids, tally))
              ELSE process_withdrawal_finish(s, cid, campaign)

\* lines 708-757, up to the transfer; `op`, `ids` and `tally` are the caller's
\* (withdraw_funds or the loop of withdraw_funds_batch)
process_withdrawal(s, caller, cid, current_time, op, ids, tally) ==
    IF cid \notin DOMAIN s.campaigns THEN DoneVal(s, "CampaignNotFound", <<>>)
    ELSE LET campaign == s.campaigns[cid] IN
         IF caller # campaign.owner /\ caller # s.admin
         THEN DoneVal(s, "NotCampaignOwner", <<>>)
         ELSE IF campaign.state = "Withdrawn" THEN DoneVal(s, "FundsAlreadyWithdrawn", <<>>)
         ELSE IF campaign.state # "Successful" /\ ~(current_time > campaign.deadline)
              THEN DoneVal(s, "GoalNotReached", <<>>)
         ELSE IF campaign.raised = 0 /\ campaign.matching_amount = 0
              THEN DoneVal(InsertCampaign(s, cid, [campaign EXCEPT !.state = "Failed"]),
                           "Ok", <<>>)
         ELSE IF NetPayable(campaign) > 0
              THEN Suspend(s, Frame(op, caller, cid, -1, 0, campaign.beneficiary,
                                    NetPayable(campaign), campaign, ids, tally))
              ELSE process_withdrawal_finish(s, cid, campaign)

withdraw_funds(s, caller, cid, current_time) ==
    IF LockHeld(s) THEN DoneVal(s, "ReentrantCall", <<>>)
    ELSE Release(process_withdrawal(Lock(s), caller, cid, current_time,
                                    "withdraw_funds", <<>>, NoTally))

Tally(tally, cid, ok) ==
    IF ok THEN [tally EXCEPT !.successful = @ + 1, !.success_ids = Append(@, cid)]
    ELSE [tally EXCEPT !.failed = @ + 1]

RECURSIVE batch_loop(_, _, _, _, _)
\* lines 810-827: the for loop, from the entry `ids` still to do
batch_loop(s, caller, ids, tally, current_time) ==
    IF ids = <<>>
    THEN DoneVal(s, "Ok", <<tally.successful, tally.failed, tally.success_ids>>)
    ELSE LET o == process_withdrawal(s, caller, Head(ids), current_time,
                                     "withdraw_funds_batch", Tail(ids), tally) IN
         IF o.susp THEN o
         ELSE batch_loop(o.s, caller, Tail(ids), Tally(tally, Head(ids), o.res = "Ok"),
                         current_time)

withdraw_funds_batch(s, caller, campaign_ids, current_time) ==
    IF Len(campaign_ids) > s.max_batch_size THEN DoneVal(s, "BatchSizeTooLarge", <<>>)
    ELSE IF LockHeld(s) THEN DoneVal(s, "ReentrantCall", <<>>)
    ELSE Release(batch_loop(Lock(s), caller, campaign_ids, NoTally, current_time))

----------------------------------------------------------------------------
(* create_campaigns_batch *)

\* A faulty loop, which stops at the first entry that fails.
CreateUntilFailure(s, caller, campaigns_data, tally, current_time) ==
    LET RECURSIVE go(_, _, _)
        go(s1, data, tl) ==
            IF data = <<>>
            THEN DoneVal(s1, "Ok", <<tl.successful, tl.failed, tl.success_ids>>)
            ELSE LET d == Head(data)
                     o == create_campaign(s1, caller, d.title_len, d.desc_len, d.goal,
                                          d.deadline, d.beneficiary, current_time)
                 IN IF o.res = "Ok" THEN go(o.s, Tail(data), Tally(tl, o.val[1], TRUE))
                    ELSE DoneVal(s1, "Ok", <<tl.successful, tl.failed + 1, tl.success_ids>>)
    IN go(s, campaigns_data, tally)

RECURSIVE create_loop(_, _, _, _, _)
\* lines 484-497: the for loop, from the entries campaigns_data still to do;
\* an entry is [title_len, desc_len, goal, deadline, beneficiary]
create_loop(s, caller, campaigns_data, tally, current_time) ==
    IF campaigns_data = <<>>
    THEN DoneVal(s, "Ok", <<tally.successful, tally.failed, tally.success_ids>>)
    ELSE LET d == Head(campaigns_data)
             o == create_campaign(s, caller, d.title_len, d.desc_len, d.goal,
                                  d.deadline, d.beneficiary, current_time)
         IN create_loop(o.s, caller, Tail(campaigns_data),
                        IF o.res = "Ok" THEN Tally(tally, o.val[1], TRUE)
                        ELSE Tally(tally, -1, FALSE),
                        current_time)

\* A faulty create_campaigns_batch, which refuses a batch of max_batch_size entries.
CreateBatchBelowLimit(s, caller, campaigns_data, current_time) ==
    IF Len(campaigns_data) >= s.max_batch_size THEN DoneVal(s, "BatchSizeTooLarge", <<>>)
    ELSE create_loop(s, caller, campaigns_data, NoTally, current_time)

\* lines 476-505: no lock is read or taken
create_campaigns_batch(s, caller, campaigns_data, current_time) ==
    IF Len(campaigns_data) > s.max_batch_size THEN DoneVal(s, "BatchSizeTooLarge", <<>>)
    ELSE create_loop(s, caller, campaigns_data, NoTally, current_time)

----------------------------------------------------------------------------
(* cancel_campaign *)

\* A faulty cancel_campaign, which anyone may call.
CancelByAnyone(s, caller, cid) ==
    IF cid \notin DOMAIN s.campaigns THEN DoneVal(s, "CampaignNotFound", <<>>)
    ELSE LET campaign == s.campaigns[cid] IN
         IF campaign.state # "Active" THEN DoneVal(s, "CampaignNotActive", <<>>)
         ELSE DoneVal(InsertCampaign(s, cid, [campaign EXCEPT !.state = "Failed"]),
                      "Ok", <<>>)

cancel_campaign(s, caller, cid) ==
    IF cid \notin DOMAIN s.campaigns THEN DoneVal(s, "CampaignNotFound", <<>>)
    ELSE LET campaign == s.campaigns[cid] IN
         IF caller # campaign.owner /\ caller # s.admin
         THEN DoneVal(s, "NotCampaignOwner", <<>>)
         ELSE IF campaign.state # "Active" THEN DoneVal(s, "CampaignNotActive", <<>>)
         ELSE DoneVal(InsertCampaign(s, cid, [campaign EXCEPT !.state = "Failed"]),
                      "Ok", <<>>)

----------------------------------------------------------------------------
(* claim_refund *)

\* A faulty claim_refund, which pays without marking the refund as claimed.
MarkNothing(s, cid, caller) == s

\* line 945
MarkClaimed(s, cid, caller) ==
    [s EXCEPT !.refund_claimed = Insert(s.refund_claimed, <<cid, caller>>, TRUE)]

LeaveClaimed(s, cid, caller) == s

\* line 950
UnmarkClaimed(s, cid, caller) ==
    [s EXCEPT !.refund_claimed = Insert(s.refund_claimed, <<cid, caller>>, FALSE)]

\* lines 916-948, the closure up to the transfer
claim_refund_body(s, caller, cid) ==
    IF cid \notin DOMAIN s.campaigns THEN DoneVal(s, "CampaignNotFound", <<>>)
    ELSE LET campaign == s.campaigns[cid]
             refund_amount == DonorTotal(Donations(s, cid), caller) IN
         IF campaign.state # "Failed" THEN DoneVal(s, "CampaignFailed", <<>>)
         ELSE IF RefundClaimed(s, cid, caller) THEN DoneVal(s, "RefundAlreadyClaimed", <<>>)
         ELSE IF refund_amount = 0 THEN DoneVal(s, "NoDonationFound", <<>>)
         ELSE Suspend(MarkClaimed(s, cid, caller),
                      Frame("claim_refund", caller, cid, -1, refund_amount, caller,
                            refund_amount, NoCampaign, <<>>, NoTally))

claim_refund(s, caller, cid) ==
    IF LockHeld(s) THEN DoneVal(s, "ReentrantCall", <<>>)
    ELSE Release(claim_refund_body(Lock(s), caller, cid))

----------------------------------------------------------------------------
(* Milestone governance *)

RECURSIVE SumPercentages(_)
SumPercentages(data) ==
    IF data = <<>> THEN 0 ELSE Head(data).percentage + SumPercentages(Tail(data))

\* lines 1512-1520
NewMilestone(d, current_time) ==
    [ percentage |-> d.percentage,
      deadline |-> current_time + d.days * MS_PER_DAY,
      votes_for |-> 0, votes_against |-> 0,
      released |-> FALSE, voting_active |-> FALSE ]

\* milestones_data is a sequence of [desc_len, percentage, days]
add_milestones(s, caller, cid, milestones_data, current_time) ==
    IF cid \notin DOMAIN s.campaigns THEN DoneVal(s, "CampaignNotFound", <<>>)
    ELSE LET campaign == s.campaigns[cid] IN
         IF caller # campaign.owner THEN DoneVal(s, "NotCampaignOwner", <<>>)
         ELSE IF campaign.state # "Active" THEN DoneVal(s, "CampaignNotActive", <<>>)
         ELSE IF SumPercentages(milestones_data) # BASIS_POINTS
              THEN DoneVal(s, "InvalidGoal", <<>>)
         ELSE IF \E i \in 1..Len(milestones_data) :
                    \/ milestones_data[i].desc_len = 0
                    \/ milestones_data[i].desc_len > MAX_MILESTONE_DESCRIPTION_LEN
              THEN DoneVal(s, "InvalidDescription", <<>>)
         ELSE DoneVal(InsertCampaign(s, cid,
                        [campaign EXCEPT
                           !.milestones = [i \in 1..Len(milestones_data) |->
                                             NewMilestone(milestones_data[i], current_time)],
                           !.uses_milestones = TRUE]),
                      "Ok", <<>>)

\* A faulty activation, which does not look at the previous milestone.
AnyOrder(campaign, idx) == TRUE

\* "idx > 0 && !campaign.milestones[idx - 1].released" negated; milestone idx of
\* the source is milestones[idx + 1] here
PreviousReleased(campaign, idx) ==
    idx = 0 \/ campaign.milestones[idx].released

activate_milestone_voting(s, caller, cid, idx, current_time) ==
    IF cid \notin DOMAIN s.campaigns THEN DoneVal(s, "CampaignNotFound", <<>>)
    ELSE LET campaign == s.campaigns[cid] IN
         IF caller # campaign.owner THEN DoneVal(s, "NotCampaignOwner", <<>>)
         ELSE IF campaign.state # "Successful" /\ campaign.state # "Withdrawn"
              THEN DoneVal(s, "GoalNotReached", <<>>)
         ELSE IF idx >= Len(campaign.milestones) THEN DoneVal(s, "CampaignNotFound", <<>>)
         ELSE IF ~PreviousReleased(campaign, idx) THEN DoneVal(s, "GoalNotReached", <<>>)
         ELSE IF current_time > campaign.milestones[idx + 1].deadline
              THEN DoneVal(s, "DeadlinePassed", <<>>)
         ELSE DoneVal(InsertCampaign(s, cid,
                        [campaign EXCEPT !.milestones[idx + 1].voting_active = TRUE]),
                      "Ok", <<>>)

\* A faulty vote_on_milestone, which never finds an earlier vote.
NeverVoted(s, cid, idx, caller) == FALSE

\* "self.milestone_votes.get(vote_key).is_some()"
AlreadyVoted(s, cid, idx, caller) == <<cid, idx, caller>> \in DOMAIN s.milestone_votes

\* lines 1630-1636
VoterWeight(s, cid, caller) == DonorTotal(Donations(s, cid), caller)

vote_on_milestone(s, caller, cid, idx, approve) ==
    IF cid \notin DOMAIN s.campaigns THEN DoneVal(s, "CampaignNotFound", <<>>)
    ELSE LET campaign == s.campaigns[cid]
             voter_weight == VoterWeight(s, cid, caller) IN
         IF idx >= Len(campaign.milestones) THEN DoneVal(s, "CampaignNotFound", <<>>)
         ELSE IF ~campaign.milestones[idx + 1].voting_active
              THEN DoneVal(s, "CampaignNotActive", <<>>)
         ELSE IF campaign.milestones[idx + 1].released
              THEN DoneVal(s, "FundsAlreadyWithdrawn", <<>>)
         ELSE IF voter_weight = 0 THEN DoneVal(s, "NoDonationFound", <<>>)
         ELSE IF AlreadyVoted(s, cid, idx, caller)
              THEN DoneVal(s, "RefundAlreadyClaimed", <<>>)
         ELSE LET voted ==
                    IF approve
                    THEN [campaign EXCEPT !.milestones[idx + 1].votes_for = @ + voter_weight]
                    ELSE [campaign EXCEPT !.milestones[idx + 1].votes_against = @ + voter_weight]
              IN DoneVal([s EXCEPT
                            !.milestone_votes =
                                Insert(s.milestone_votes, <<cid, idx, caller>>, voter_weight),
                            !.campaigns = Insert(s.campaigns, cid, voted)],
                         "Ok", <<>>)

\* A faulty tally, which counts the votes in favour alone.
ApprovalIgnoringAgainst(m) == IF m.votes_for > 0 THEN 100 ELSE 0

ApprovalPercentage(m) == (m.votes_for * 100) \div (m.votes_for + m.votes_against)

\* floor(a * b / d), computed without forming a * b
MulDiv(a, b, d) == (a \div d) * b + ((a % d) * b) \div d

MilestoneAmount(campaign, idx) ==
    MulDiv(campaign.raised + campaign.matching_amount,
           campaign.milestones[idx + 1].percentage, BASIS_POINTS)

\* lines 1739-1749, on the local copy of the campaign loaded before the transfer
release_milestone_finish(s, cid, idx, campaign) ==
    LET marked == [campaign EXCEPT !.milestones[idx + 1].released = TRUE,
                                   !.milestones[idx + 1].voting_active = FALSE]
        all_released == \A i \in 1..Len(marked.milestones) : marked.milestones[i].released
        final == IF all_released THEN [marked EXCEPT !.state = "Withdrawn"] ELSE marked
    IN DoneVal(InsertCampaign(s, cid, final), "Ok", <<>>)

\* lines 1688-1737, up to the transfer
release_milestone_funds(s, caller, cid, idx) ==
    IF cid \notin DOMAIN s.campaigns THEN DoneVal(s, "CampaignNotFound", <<>>)
    ELSE LET campaign == s.campaigns[cid] IN
         IF caller # campaign.owner /\ caller # s.admin
         THEN DoneVal(s, "NotCampaignOwner", <<>>)
         ELSE IF idx >= Len(campaign.milestones) THEN DoneVal(s, "CampaignNotFound", <<>>)
         ELSE IF campaign.milestones[idx + 1].released
              THEN DoneVal(s, "FundsAlreadyWithdrawn", <<>>)
         ELSE IF ~campaign.milestones[idx + 1].voting_active
              THEN DoneVal(s, "CampaignNotActive", <<>>)
         ELSE IF campaign.milestones[idx + 1].votes_for
                   + campaign.milestones[idx + 1].votes_against = 0
              THEN DoneVal(s, "InsufficientFunds", <<>>)
         ELSE IF ApprovalPercentage(campaign.milestones[idx + 1]) < APPROVAL_THRESHOLD
              THEN DoneVal(s, "GoalNotReached", <<>>)
         ELSE IF MilestoneAmount(campaign, idx) > 0
              THEN Suspend(s, Frame("release_milestone_funds", caller, cid, idx, 0,
                                    campaign.beneficiary, MilestoneAmount(campaign, idx),
                                    campaign, <<>>, NoTally))
              ELSE release_milestone_finish(s, cid, idx, campaign)

----------------------------------------------------------------------------
(* The rest of a suspended message, once its external call has returned *)

\* A faulty continuation, for which a failed mint fails the donation.
MintMustSucceed(s, f, current_time) ==
    CASE f.op = "donate" ->
           IF ~f.ok THEN DoneVal(Unlock(s), "TransferFailed", <<>>)
           ELSE Release(process_donation_rest(s, f.caller, f.cid, f.amount, current_time))
      [] f.op = "donate_mint" ->
           \* the mint decides the result
           IF f.ok THEN DoneVal(Unlock(s), "Ok", <<>>)
           ELSE DoneVal(Unlock(s), "TransferFailed", <<"NftMintingFailed">>)
      [] f.op = "withdraw_funds" ->
           IF ~f.ok THEN DoneVal(Unlock(s), "WithdrawalFailed", <<>>)
           ELSE Release(process_withdrawal_finish(s, f.cid, f.campaign))
      [] f.op = "withdraw_funds_batch" ->
           IF ~f.ok
           THEN Release(batch_loop(s, f.caller, f.ids, Tally(f.tally, f.cid, FALSE),
                                   current_time))
           ELSE Release(batch_loop(process_withdrawal_finish(s, f.cid, f.campaign).s,
                                   f.caller, f.ids, Tally(f.tally, f.cid, TRUE),
                                   current_time))
      [] f.op = "claim_refund" ->
           IF ~f.ok THEN DoneVal(Unlock(UnmarkClaimed(s, f.cid, f.caller)),
                                 "TransferFailed", <<>>)
           ELSE DoneVal(Unlock(s), "Ok", <<>>)
      [] f.op = "release_milestone_funds" ->
           IF ~f.ok THEN DoneVal(s, "WithdrawalFailed", <<>>)
           ELSE release_milestone_finish(s, f.cid, f.idx, f.campaign)

Resume(s, f, current_time) ==
    CASE f.op = "donate" ->
           IF ~f.ok THEN DoneVal(Unlock(s), "TransferFailed", <<>>)
           ELSE Release(process_donation_rest(s, f.caller, f.cid, f.amount, current_time))
      [] f.op = "donate_mint" ->
           \* lines 653-663: a failed mint is logged, the donation stands
           DoneVal(Unlock(s), "Ok", IF f.ok THEN <<>> ELSE <<"NftMintingFailed">>)
      [] f.op = "withdraw_funds" ->
           IF ~f.ok THEN DoneVal(Unlock(s), "WithdrawalFailed", <<>>)
           ELSE Release(process_withdrawal_finish(s, f.cid, f.campaign))
      [] f.op = "withdraw_funds_batch" ->
           IF ~f.ok
           THEN Release(batch_loop(s, f.caller, f.ids, Tally(f.tally, f.cid, FALSE),
                                   current_time))
           ELSE Release(batch_loop(process_withdrawal_finish(s, f.cid, f.campaign).s,
                                   f.caller, f.ids, Tally(f.tally, f.cid, TRUE),
                                   current_time))
      [] f.op = "claim_refund" ->
           IF ~f.ok THEN DoneVal(Unlock(UnmarkClaimed(s, f.cid, f.caller)),
                                 "TransferFailed", <<>>)
           ELSE DoneVal(Unlock(s), "Ok", <<>>)
      [] f.op = "release_milestone_funds" ->
           IF ~f.ok THEN DoneVal(s, "WithdrawalFailed", <<>>)
           ELSE release_milestone_finish(s, f.cid, f.idx, f.campaign)

----------------------------------------------------------------------------
(* Administration *)

set_max_batch_size(s, caller, size) ==
    IF caller # s.admin THEN DoneVal(s, "NotCampaignOwner", <<>>)
    ELSE DoneVal([s EXCEPT !.max_batch_size = size], "Ok", <<>>)

set_nft_contract(s, caller, nft_contract) ==
    IF caller # s.admin THEN DoneVal(s, "NotCampaignOwner", <<>>)
    ELSE DoneVal([s EXCEPT !.nft_contract = nft_contract], "Ok", <<>>)

set_nft_enabled(s, caller, enabled) ==
    IF caller # s.admin THEN DoneVal(s, "NotCampaignOwner", <<>>)
    ELSE DoneVal([s EXCEPT !.nft_enabled = enabled], "Ok", <<>>)

----------------------------------------------------------------------------
(* Quadratic funding *)

\* lines 1187-1204; amount is the transferred value
fund_matching_pool(s, caller, amount) ==
    IF amount = 0 THEN DoneVal(s, "InvalidDonationAmount", <<>>)
    ELSE DoneVal([s EXCEPT !.matching_pool_balance = @ + amount], "Ok", <<>>)

\* A faulty create_matching_round, which leaves the pool balance as it was.
CreateRoundWithoutDeducting(s, caller, pool_amount, duration, current_time) ==
    IF caller # s.admin THEN DoneVal(s, "NotCampaignOwner", <<>>)
    ELSE IF pool_amount > s.matching_pool_balance
         THEN DoneVal(s, "InsufficientMatchingPool", <<>>)
    ELSE LET round_id == s.round_count
             round == [ id |-> round_id, pool_amount |-> pool_amount,
                        end_time |-> current_time + duration,
                        distributed |-> FALSE, campaign_ids |-> <<>> ]
         IN DoneVal([s EXCEPT !.matching_rounds = Insert(@, round_id, round),
                              !.current_round = round_id,
                              !.round_count = @ + 1],
                    "Ok", round_id)

\* lines 1218-1254
create_matching_round(s, caller, pool_amount, duration, current_time) ==
    IF caller # s.admin THEN DoneVal(s, "NotCampaignOwner", <<>>)
    ELSE IF pool_amount > s.matching_pool_balance
         THEN DoneVal(s, "InsufficientMatchingPool", <<>>)
    ELSE LET round_id == s.round_count
             round == [ id |-> round_id, pool_amount |-> pool_amount,
                        end_time |-> current_time + duration,
                        distributed |-> FALSE, campaign_ids |-> <<>> ]
         IN DoneVal([s EXCEPT !.matching_rounds = Insert(@, round_id, round),
                              !.current_round = round_id,
                              !.round_count = @ + 1,
                              !.matching_pool_balance = @ - pool_amount],
                    "Ok", round_id)

\* A faulty sqrt_loop, which stops after one step of the iteration.
SqrtStopsEarly(n, x, y) == IF y < x THEN y ELSE x

RECURSIVE sqrt_loop(_, _, _)
\* "while y < x { x = y; y = (x + n / x) / 2; }"
sqrt_loop(n, x, y) ==
    IF y < x THEN sqrt_loop(n, y, (y + n \div y) \div 2) ELSE x

\* lines 1333-1347
sqrt(n) == IF n = 0 THEN 0 ELSE sqrt_loop(n, n, (n + 1) \div 2)

RECURSIVE SumOfSquareRoots(_)
SumOfSquareRoots(ds) ==
    IF ds = <<>> THEN 0 ELSE sqrt(Head(ds).amount) + SumOfSquareRoots(Tail(ds))

\* lines 1353-1369
calculate_qf_score(s, cid) ==
    IF cid \notin DOMAIN s.campaign_donations THEN 0
    ELSE SumOfSquareRoots(s.campaign_donations[cid]) * SumOfSquareRoots(s.campaign_donations[cid])

RECURSIVE CampaignScores(_, _, _)
\* lines 1288-1299: the (campaign_id, qf_score) pairs of the round, from id cid on
CampaignScores(s, round_id, cid) ==
    IF cid >= s.campaign_count THEN <<>>
    ELSE LET rest == CampaignScores(s, round_id, cid + 1) IN
         IF /\ cid \in DOMAIN s.campaigns
            /\ s.campaigns[cid].matching_round = round_id
            /\ s.campaigns[cid].state # "Failed"
            /\ calculate_qf_score(s, cid) > 0
         THEN <<[id |-> cid, score |-> calculate_qf_score(s, cid)]>> \o rest
         ELSE rest

RECURSIVE TotalScore(_)
TotalScore(scores) ==
    IF scores = <<>> THEN 0 ELSE Head(scores).score + TotalScore(Tail(scores))

\* A faulty Distribute, which rounds every share up.
DistributeRoundedUp(s, scores, pool_amount, total_qf_score) ==
    LET RECURSIVE go(_, _)
        go(s0, rest) ==
            IF rest = <<>> THEN s0
            ELSE LET cid == Head(rest).id
                     floor == MulDiv(Head(rest).score, pool_amount, total_qf_score)
                     exact == floor * total_qf_score
                                 = Head(rest).score * pool_amount
                     s1 == IF cid \in DOMAIN s0.campaigns
                           THEN InsertCampaign(s0, cid, [s0.campaigns[cid] EXCEPT
                                    !.matching_amount = IF exact THEN floor ELSE floor + 1])
                           ELSE s0
                 IN go(s1, Tail(rest))
    IN go(s, scores)

RECURSIVE Distribute(_, _, _, _)
\* lines 1302-1317: each campaign's share of the pool
Distribute(s, scores, pool_amount, total_qf_score) ==
    IF scores = <<>> THEN s
    ELSE LET cid == Head(scores).id
             matching_share == MulDiv(Head(scores).score, pool_amount, total_qf_score)
             s1 == IF cid \in DOMAIN s.campaigns
                   THEN InsertCampaign(s, cid, [s.campaigns[cid] EXCEPT
                                                  !.matching_amount = matching_share])
                   ELSE s
         IN Distribute(s1, Tail(scores), pool_amount, total_qf_score)

\* A faulty calculate_and_distribute_matching, which distributes a round again.
DistributeAgain(s, caller, round_id, current_time) ==
    IF caller # s.admin THEN DoneVal(s, "NotCampaignOwner", <<>>)
    ELSE IF round_id \notin DOMAIN s.matching_rounds
         THEN DoneVal(s, "CampaignNotFound", <<>>)
    ELSE LET round == s.matching_rounds[round_id] IN
         IF current_time < round.end_time THEN DoneVal(s, "DeadlinePassed", <<>>)
         ELSE LET campaign_scores == CampaignScores(s, round_id, 0)
                  total_qf_score == TotalScore(campaign_scores)
                  s1 == IF total_qf_score > 0
                        THEN Distribute(s, campaign_scores, round.pool_amount, total_qf_score)
                        ELSE s
              IN DoneVal([s1 EXCEPT
                            !.matching_rounds =
                                Insert(@, round_id, [round EXCEPT !.distributed = TRUE]),
                            !.current_round =
                                IF @ = round_id THEN NoRound ELSE @],
                         "Ok", <<>>)

\* lines 1268-1329
calculate_and_distribute_matching(s, caller, round_id, current_time) ==
    IF caller # s.admin THEN DoneVal(s, "NotCampaignOwner", <<>>)
    ELSE IF round_id \notin DOMAIN s.matching_rounds
         THEN DoneVal(s, "CampaignNotFound", <<>>)
    ELSE LET round == s.matching_rounds[round_id] IN
         IF round.distributed THEN DoneVal(s, "FundsAlreadyWithdrawn", <<>>)
         ELSE IF current_time < round.end_time THEN DoneVal(s, "DeadlinePassed", <<>>)
         ELSE LET campaign_scores == CampaignScores(s, round_id, 0)
                  total_qf_score == TotalScore(campaign_scores)
                  s1 == IF total_qf_score > 0
                        THEN Distribute(s, campaign_scores, round.pool_amount, total_qf_score)
                        ELSE s
              IN DoneVal([s1 EXCEPT
                            !.matching_rounds =
                                Insert(@, round_id, [round EXCEPT !.distributed = TRUE]),
                            !.current_round =
                                IF @ = round_id THEN NoRound ELSE @],
                         "Ok", <<>>)

RECURSIVE EstimatedTotalScore(_, _, _)
\* lines 1409-1416: the scores of the round's campaigns, from id cid on
EstimatedTotalScore(s, round_id, cid) ==
    IF cid >= s.campaign_count THEN 0
    ELSE LET rest == EstimatedTotalScore(s, round_id, cid + 1) IN
         IF cid \in DOMAIN s.campaigns /\ s.campaigns[cid].matching_round = round_id
         THEN calculate_qf_score(s, cid) + rest
         ELSE rest

\* lines 1382-1424; a read-only message: it returns a value and writes nothing
get_estimated_matching(s, campaign_id) ==
    IF campaign_id \notin DOMAIN s.campaigns THEN 0
    ELSE LET campaign == s.campaigns[campaign_id]
             round_id == campaign.matching_round
         IN IF round_id = NoRound THEN 0
            ELSE IF round_id \notin DOMAIN s.matching_rounds THEN 0
            ELSE LET round == s.matching_rounds[round_id]
                     campaign_score == calculate_qf_score(s, campaign_id)
                     total_score == EstimatedTotalScore(s, round_id, 0)
                 IN IF round.distributed THEN campaign.matching_amount
                    ELSE IF campaign_score = 0 THEN 0
                    ELSE IF total_score = 0 THEN 0
                    ELSE MulDiv(campaign_score, round.pool_amount, total_score)

----------------------------------------------------------------------------
(* Read accessors; each takes &self, returns a value and writes nothing *)

\* lines 997-1010: "all_donations[start..end]" panics when start > end
get_campaign_details(s, campaign_id, offset, limit) ==
    IF campaign_id \notin DOMAIN s.campaigns THEN [res |-> "None"]
    ELSE LET all_donations == Donations(s, campaign_id)
             start == offset
             end == Min(offset + limit, Len(all_donations))
         IN IF start > end THEN [res |-> "Panic"]
            ELSE [ res |-> "Some",
                   campaign |-> s.campaigns[campaign_id],
                   donations |-> SubSeq(all_donations, start + 1, end),
                   total_donations |-> Len(all_donations) ]

RECURSIVE campaigns_from(_, _, _)
\* lines 1028-1032: "for i in start..end", an empty range when start >= end
campaigns_from(s, i, end) ==
    IF i >= end THEN <<>>
    ELSE IF i \in DOMAIN s.campaigns
         THEN <<s.campaigns[i]>> \o campaigns_from(s, i + 1, end)
         ELSE campaigns_from(s, i + 1, end)

\* lines 1023-1035
get_campaigns_paginated(s, offset, limit) ==
    campaigns_from(s, offset, Min(offset + limit, s.campaign_count))

RECURSIVE count_unique(_, _, _)
\* lines 1452-1458: one more for each donation whose donor is marked
count_unique(s, campaign_id, donations) ==
    IF donations = <<>> THEN 0
    ELSE LET donor_key == <<campaign_id, Head(donations).donor>>
             marked == IF donor_key \in DOMAIN s.unique_donors
                       THEN s.unique_donors[donor_key] ELSE FALSE
         IN (IF marked THEN 1 ELSE 0) + count_unique(s, campaign_id, Tail(donations))

\* lines 1446-1461
get_unique_donor_count(s, campaign_id) ==
    IF campaign_id \notin DOMAIN s.campaign_donations THEN 0
    ELSE count_unique(s, campaign_id, s.campaign_donations[campaign_id])

----------------------------------------------------------------------------
(* Actions *)

Top == stack[Len(stack)]

Below == SubSeq(stack, 1, Len(stack) - 1)

\* A message starts at top level, called by anyone, or inside the external call
\* of the innermost suspended message, called by the account that call runs.
CanCall(caller) ==
    IF stack = <<>> THEN TRUE ELSE caller = Top.to /\ Top.calls < MaxCalls

\* the suspended messages once one more message has been sent
Entered ==
    IF stack = <<>> THEN stack ELSE [stack EXCEPT ![Len(stack)].calls = @ + 1]

TransferKind(op) ==
    CASE op \in {"withdraw_funds", "withdraw_funds_batch"} -> "withdraw"
      [] op = "claim_refund" -> "refund"
      [] op = "release_milestone_funds" -> "milestone"
      [] OTHER -> "other"

TransferKey(f) ==
    [kind |-> TransferKind(f.op), cid |-> f.cid, who |-> f.to, idx |-> f.idx]

Transferred(key) == IF key \in DOMAIN transfers THEN transfers[key] ELSE 0

RECURSIVE RecordAll(_, _)
\* the history of successful transfers, with those of the frames `paid` added
RecordAll(tr, paid) ==
    IF paid = <<>> THEN tr
    ELSE LET k == TransferKey(Head(paid))
             n == IF k \in DOMAIN tr THEN tr[k] ELSE 0
         IN RecordAll(IF TransferKind(Head(paid).op) = "other" THEN tr
                      ELSE Insert(tr, k, IF n < HistCap THEN n + 1 ELSE HistCap),
                      Tail(paid))

PaidOut(cid) == IF cid \in DOMAIN payouts THEN payouts[cid] ELSE 0

RECURSIVE PayAll(_, _)
\* the payouts, with the values of the frames `paid` added to their campaigns
PayAll(po, paid) ==
    IF paid = <<>> THEN po
    ELSE LET f == Head(paid)
             n == IF f.cid \in DOMAIN po THEN po[f.cid] ELSE 0
         IN PayAll(IF TransferKind(f.op) = "other" THEN po
                   ELSE Insert(po, f.cid, Min(n + f.value, PayCap)),
                   Tail(paid))

OkAt(oks) == IF oks = <<>> THEN TRUE ELSE Head(oks)

RECURSIVE Run(_, _, _, _, _)
\* Runs the message whose outcome so far is o through its external calls, the
\* i-th of which succeeds iff oks[i].  A call that fails, or that goes to an
\* account without code, runs nothing of interest and the message goes on; so
\* does a call to a contract that calls nothing back, the only kind there is
\* room for once MaxDepth messages are suspended.  Any other successful call
\* to a contract suspends the message.  `paid` collects the frames of the
\* successful calls.
Run(o, oks, paid, current_time, room) ==
    IF ~o.susp THEN [o |-> o, paid |-> paid]
    ELSE LET f == [o.frame EXCEPT !.ok = OkAt(oks)]
             paid1 == IF f.ok THEN Append(paid, f) ELSE paid
         IN IF f.ok /\ f.to \in Contracts /\ room
            THEN [o |-> Suspend(o.s, f), paid |-> paid1]
            ELSE Run(Resume(o.s, f, current_time),
                     IF oks = <<>> THEN <<>> ELSE Tail(oks), paid1, current_time, room)

OkChoices(o) ==
    IF o.susp THEN [1..MaxExternal -> BOOLEAN] ELSE {[i \in 1..MaxExternal |-> TRUE]}

\* The step of a message whose outcome is o: it either returns, or is suspended
\* in an external call on top of the frames `below`.
Proceed(o, below) ==
    \E oks \in OkChoices(o) :
        LET r == Run(o, oks, <<>>, now, Len(below) < MaxDepth) IN
        /\ self' = r.o.s
        /\ transfers' = RecordAll(transfers, r.paid)
        /\ payouts' = PayAll(payouts, r.paid)
        /\ stack' = IF r.o.susp THEN Append(below, r.o.frame) ELSE below
        /\ now' = now

ExternalReturn ==
    /\ stack # <<>>
    /\ Proceed(Resume(self, Top, now), Below)

CreateCampaign(caller, title_len, desc_len, goal, deadline, beneficiary) ==
    /\ CanCall(caller)
    /\ LET o == create_campaign(self, caller, title_len, desc_len, goal, deadline,
                                beneficiary, now) IN
       /\ o.res = "Ok" => self.campaign_count < MaxCampaigns
       /\ Proceed(o, Entered)

\* the donation would be recorded if nothing intervenes
WouldRecord(s, cid, amount, current_time) ==
    /\ ~s.locked
    /\ amount >= MIN_DONATION
    /\ cid \in DOMAIN s.campaigns
    /\ s.campaigns[cid].state = "Active"
    /\ current_time <= s.campaigns[cid].deadline

Donate(caller, cid, amount) ==
    /\ CanCall(caller)
    /\ WouldRecord(self, cid, amount, now) => Len(Donations(self, cid)) < MaxDonations
    /\ Proceed(donate(self, caller, cid, amount, now), Entered)

WithdrawFunds(caller, cid) ==
    /\ CanCall(caller)
    /\ Proceed(withdraw_funds(self, caller, cid, now), Entered)

WithdrawFundsBatch(caller, campaign_ids) ==
    /\ CanCall(caller)
    /\ Proceed(withdraw_funds_batch(self, caller, campaign_ids, now), Entered)

CancelCampaign(caller, cid) ==
    /\ CanCall(caller)
    /\ Proceed(cancel_campaign(self, caller, cid), Entered)

\* cancel_campaign sent by the payee of the innermost external call, which may
\* send up to PayeeCalls messages while that call runs
CancelByPayee(caller, cid) ==
    /\ stack # <<>>
    /\ caller = Top.to
    /\ Top.calls < PayeeCalls
    /\ Proceed(cancel_campaign(self, caller, cid), Entered)

SetNftContract(caller, nft_contract) ==
    /\ CanCall(caller)
    /\ Proceed(set_nft_contract(self, caller, nft_contract), Entered)

SetNftEnabled(caller, enabled) ==
    /\ CanCall(caller)
    /\ Proceed(set_nft_enabled(self, caller, enabled), Entered)

ClaimRefund(caller, cid) ==
    /\ CanCall(caller)
    /\ Proceed(claim_refund(self, caller, cid), Entered)

AddMilestones(caller, cid, milestones_data) ==
    /\ CanCall(caller)
    /\ Proceed(add_milestones(self, caller, cid, milestones_data, now), Entered)

ActivateMilestoneVoting(caller, cid, idx) ==
    /\ CanCall(caller)
    /\ Proceed(activate_milestone_voting(self, caller, cid, idx, now), Entered)

VoteOnMilestone(caller, cid, idx, approve) ==
    /\ CanCall(caller)
    /\ Proceed(vote_on_milestone(self, caller, cid, idx, approve), Entered)

ReleaseMilestoneFunds(caller, cid, idx) ==
    /\ CanCall(caller)
    /\ Proceed(release_milestone_funds(self, caller, cid, idx), Entered)

\* The instants at which a deadline comparison of the code changes its outcome
Instants(s) ==
    UNION { {s.campaigns[c].deadline, s.campaigns[c].deadline + 1} : c \in DOMAIN s.campaigns }

\* The block timestamp moves on between transactions only.
Tick(t) ==
    /\ stack = <<>>
    /\ t > now
    /\ now' = t
    /\ UNCHANGED <<self, stack, transfers, payouts>>

FundMatchingPool(caller, amount) ==
    /\ CanCall(caller)
    /\ self.matching_pool_balance + amount <= MaxPool
    /\ Proceed(fund_matching_pool(self, caller, amount), Entered)

CreateMatchingRound(caller, pool_amount, duration) ==
    /\ CanCall(caller)
    /\ LET o == create_matching_round(self, caller, pool_amount, duration, now) IN
       /\ o.res = "Ok" => self.round_count < MaxRounds
       /\ Proceed(o, Entered)

CalculateAndDistributeMatching(caller, round_id) ==
    /\ CanCall(caller)
    /\ Proceed(calculate_and_distribute_matching(self, caller, round_id, now), Entered)

\* create_campaign while fewer than MaxBatchCampaigns campaigns exist
CreateCampaignOfMany(caller, title_len, desc_len, goal, deadline, beneficiary) ==
    /\ CanCall(caller)
    /\ LET o == create_campaign(self, caller, title_len, desc_len, goal, deadline,
                                beneficiary, now) IN
       /\ o.res = "Ok" => self.campaign_count < MaxBatchCampaigns
       /\ Proceed(o, Entered)

\* the entries of a batch, their deadlines counted from the instant t
DeadlinesFrom(entries, t) ==
    [i \in 1..Len(entries) |->
        [ title_len |-> entries[i].title_len, desc_len |-> entries[i].desc_len,
          goal |-> entries[i].goal, deadline |-> t + entries[i].off,
          beneficiary |-> entries[i].beneficiary ]]

CreateCampaignsBatch(caller, entries) ==
    /\ CanCall(caller)
    /\ LET o == create_campaigns_batch(self, caller, DeadlinesFrom(entries, now), now) IN
       /\ o.s.campaign_count <= MaxBatchCampaigns
       /\ Proceed(o, Entered)

SetMaxBatchSize(caller, size) ==
    /\ CanCall(caller)
    /\ Proceed(set_max_batch_size(self, caller, size), Entered)

\* The instants at which a round's end_time comparison changes its outcome
RoundInstants(s) == { s.matching_rounds[r].end_time : r \in DOMAIN s.matching_rounds }

----------------------------------------------------------------------------
(* Inputs of the checked specification *)

\* the ids campaigns can have; before its creation an id names no campaign
CampaignIds == 0..(MaxCampaigns - 1)
Owners == {"carol"}
TitleLens == {5}
DescLens == {10}
Goals == {2000000}
DeadlineOffsets == {3600001}
Beneficiaries == {"carol"}
Donors == {"bob", "carol"}
Amounts == {1000000}
MilestoneIndexes == 0..1
MilestoneInputs ==
    { << [desc_len |-> 5, percentage |-> 6000, days |-> 1],
         [desc_len |-> 5, percentage |-> 4000, days |-> 1] >> }
\* one entry more than max_batch_size allows
LongBatch == [i \in 1..(DEFAULT_MAX_BATCH_SIZE + 1) |-> 0]
BatchInputs == { <<0, 0>>, LongBatch }

Init ==
    /\ self = New
    /\ now = 0
    /\ stack = <<>>
    /\ transfers = <<>>
    /\ payouts = <<>>

Next ==
    \/ \E caller \in Owners, title_len \in TitleLens, desc_len \in DescLens,
          goal \in Goals, off \in DeadlineOffsets, beneficiary \in Beneficiaries :
          CreateCampaign(caller, title_len, desc_len, goal, now + off, beneficiary)
    \/ \E caller \in Donors, cid \in CampaignIds, amount \in Amounts :
          Donate(caller, cid, amount)
    \/ \E caller \in Accounts, cid \in CampaignIds : WithdrawFunds(caller, cid)
    \/ \E caller \in Accounts, ids \in BatchInputs : WithdrawFundsBatch(caller, ids)
    \/ \E caller \in Accounts, cid \in CampaignIds : CancelCampaign(caller, cid)
    \/ \E caller \in Accounts, cid \in CampaignIds : ClaimRefund(caller, cid)
    \/ \E caller \in Accounts, cid \in CampaignIds, data \in MilestoneInputs :
          AddMilestones(caller, cid, data)
    \/ \E caller \in Accounts, cid \in CampaignIds, idx \in MilestoneIndexes :
          ActivateMilestoneVoting(caller, cid, idx)
    \/ \E caller \in Accounts, cid \in CampaignIds, idx \in MilestoneIndexes,
          approve \in BOOLEAN : VoteOnMilestone(caller, cid, idx, approve)
    \/ \E caller \in Accounts, cid \in CampaignIds, idx \in MilestoneIndexes :
          ReleaseMilestoneFunds(caller, cid, idx)
    \/ ExternalReturn
    \/ \E t \in Instants(self) : Tick(t)

Spec == Init /\ [][Next]_vars

----------------------------------------------------------------------------
(* Properties *)

AllOks == [1..MaxExternal -> BOOLEAN]

\* The outcome of a message run to its return, its external calls succeeding
\* as oks says and calling nothing back
Returns(o, oks) == Run(o, oks, <<>>, now, FALSE).o

\* campaign ids, with one that names no campaign
AnyIds == 0..MaxCampaigns

Raised(s, cid) == IF cid \in DOMAIN s.campaigns THEN s.campaigns[cid].raised ELSE 0

StateOf(s, cid) == IF cid \in DOMAIN s.campaigns THEN s.campaigns[cid].state ELSE "None"

Milestones(s, cid) ==
    IF cid \in DOMAIN s.campaigns THEN s.campaigns[cid].milestones ELSE <<>>

GuardedOps == {"donate", "donate_mint", "withdraw_funds", "withdraw_funds_batch",
               "claim_refund"}

LedgerMatchesRaised ==
    \A cid \in DOMAIN self.campaigns :
        SumAmounts(Donations(self, cid)) = self.campaigns[cid].raised

\* this step is a donate that returned Ok
StepIsDonation ==
    \E caller \in Accounts, cid \in CampaignIds, amount \in Amounts, oks \in AllOks :
        LET r == Returns(donate(self, caller, cid, amount, now), oks) IN
        r.res = "Ok" /\ self' = r.s

OnlyDonateMovesLedger ==
    (\E cid \in AnyIds : \/ Donations(self', cid) # Donations(self, cid)
                         \/ Raised(self', cid) # Raised(self, cid))
        => StepIsDonation

\* C1: in every reachable state the amounts in each campaign's ledger sum to
\* campaign.raised, and every step that changes a ledger or a raised total is a
\* donate that returned Ok.
C1_LedgerSumIsRaised == []LedgerMatchesRaised /\ [][OnlyDonateMovesLedger]_vars

\* a campaign paid out after two donations, its ledger and total still in place
C1_Witness ==
    \E cid \in DOMAIN self.campaigns :
        /\ Len(Donations(self, cid)) = 2
        /\ self.campaigns[cid].raised = 2 * MIN_DONATION
        /\ self.campaigns[cid].state = "Withdrawn"
        /\ stack = <<>>

Reverses(a, b) ==
    \/ a = "Withdrawn" /\ b # "Withdrawn"
    \/ a = "Successful" /\ b = "Active"
    \/ a = "Failed" /\ b = "Active"

\* C2: no step, nested in a transfer or not, takes a campaign from Withdrawn to
\* another state, from Successful to Active or from Failed to Active.
C2_StateNeverReverses ==
    [][\A cid \in DOMAIN self.campaigns :
          ~Reverses(StateOf(self, cid), StateOf(self', cid))]_vars

ListedTransitions ==
    { <<"Active", "Successful">>, <<"Active", "Failed">>,
      <<"Successful", "Withdrawn">>, <<"Failed", "Withdrawn">> }

\* C3: every change of a campaign's state is Active to Successful, Active to
\* Failed, Successful to Withdrawn or Failed to Withdrawn; no step takes a
\* campaign from Active to Withdrawn.
C3_OnlyListedTransitions ==
    [][\A cid \in DOMAIN self.campaigns :
          StateOf(self', cid) # StateOf(self, cid)
              => <<StateOf(self, cid), StateOf(self', cid)>> \in ListedTransitions]_vars

\* o is a rejection that left the storage s as it was
Rejects(o, s, err) == ~o.susp /\ o.res = err /\ o.s = s

AnyAmounts == Amounts \cup {0}

AnyBatches == BatchInputs \cup {<<>>, <<0>>}

NestedSinglesRejected ==
    \A caller \in Accounts, cid \in AnyIds :
        /\ \A amount \in AnyAmounts :
              Rejects(donate(self, caller, cid, amount, now), self, "ReentrantCall")
        /\ Rejects(withdraw_funds(self, caller, cid, now), self, "ReentrantCall")
        /\ Rejects(claim_refund(self, caller, cid), self, "ReentrantCall")

\* C4: while the lock is held, every donate, withdraw_funds and claim_refund
\* returns ReentrantCall and leaves the whole storage, lock included, as it
\* was; so does withdraw_funds_batch, except that a batch longer than
\* max_batch_size is turned away with BatchSizeTooLarge before the lock is
\* looked at, the storage again unchanged.
C4_NestedCallsRejected ==
    self.locked =>
        /\ NestedSinglesRejected
        /\ \A caller \in Accounts, ids \in AnyBatches :
              Rejects(withdraw_funds_batch(self, caller, ids, now), self,
                      IF Len(ids) > self.max_batch_size
                      THEN "BatchSizeTooLarge" ELSE "ReentrantCall")

\* C4 as stated: under the lock all four messages return ReentrantCall, to
\* the payee of the transfer in progress as to anyone
C4_AllReturnReentrantCall ==
    self.locked /\ stack # <<>> =>
        /\ NestedSinglesRejected
        /\ \A ids \in AnyBatches :
              Rejects(withdraw_funds_batch(self, Top.to, ids, now), self, "ReentrantCall")

\* the payee of a guarded message's transfer has called back under the lock
C4_Witness ==
    /\ stack # <<>>
    /\ self.locked
    /\ Top.op \in GuardedOps
    /\ Top.calls = 1

LockFollowsGuardedFrames ==
    self.locked <=> \E i \in 1..Len(stack) : stack[i].op \in GuardedOps

\* every guarded message started at top level gets past the guard and returns
\* with the lock clear, whatever its result
TopLevelCallsReleaseLock ==
    \A caller \in Accounts, cid \in AnyIds, oks \in AllOks :
        /\ \A amount \in AnyAmounts :
              LET r == Returns(donate(self, caller, cid, amount, now), oks) IN
              r.res # "ReentrantCall" /\ ~r.s.locked
        /\ LET r == Returns(withdraw_funds(self, caller, cid, now), oks) IN
           r.res # "ReentrantCall" /\ ~r.s.locked
        /\ LET r == Returns(claim_refund(self, caller, cid), oks) IN
           r.res # "ReentrantCall" /\ ~r.s.locked
        /\ \A ids \in AnyBatches :
              LET r == Returns(withdraw_funds_batch(self, caller, ids, now), oks) IN
              r.res # "ReentrantCall" /\ ~r.s.locked

\* C5: the lock is held exactly while a guarded message is suspended in its
\* transfer; between top-level calls it is clear, and every guarded message
\* then called returns, with Ok or with any error, leaving it clear and is
\* never rejected with ReentrantCall.
C5_LockReleasedOnEveryExit ==
    /\ LockFollowsGuardedFrames
    /\ stack = <<>> => ~self.locked /\ TopLevelCallsReleaseLock

\* between top-level calls, after a refund was paid: a further claim takes the
\* lock, fails with RefundAlreadyClaimed and gives the lock back
C5_Witness ==
    /\ stack = <<>>
    /\ ~self.locked
    /\ \E k \in DOMAIN transfers :
          /\ k.kind = "refund"
          /\ Rejects(claim_refund(self, k.who, k.cid), self, "RefundAlreadyClaimed")
          /\ \E oks \in AllOks :
                Returns(withdraw_funds(self, Admin, k.cid, now), oks).res = "WithdrawalFailed"

\* C6: while a transfer is in progress, no fund-transferring message called
\* by its payee gets as far as a transfer of its own; release_milestone_funds
\* in particular is turned away.
C6_NoTransferInsideTransfer ==
    stack # <<>> =>
        \A cid \in AnyIds :
            /\ \A amount \in AnyAmounts : ~donate(self, Top.to, cid, amount, now).susp
            /\ ~withdraw_funds(self, Top.to, cid, now).susp
            /\ \A ids \in AnyBatches : ~withdraw_funds_batch(self, Top.to, ids, now).susp
            /\ ~claim_refund(self, Top.to, cid).susp
            /\ \A idx \in MilestoneIndexes :
                  ~release_milestone_funds(self, Top.to, cid, idx).susp

RefundKey(cid, donor) == [kind |-> "refund", cid |-> cid, who |-> donor, idx |-> -1]

\* donor's claim_refund on cid is suspended in its transfer
RefundInFlight(cid, donor) ==
    \E i \in 1..Len(stack) :
        stack[i].op = "claim_refund" /\ stack[i].cid = cid /\ stack[i].caller = donor

MayCall(caller) == IF stack = <<>> THEN TRUE ELSE caller = Top.to

MilestoneKey(cid, who, idx) == [kind |-> "milestone", cid |-> cid, who |-> who, idx |-> idx]

MilestonePaidOnce ==
    \A k \in DOMAIN transfers : k.kind = "milestone" => transfers[k] <= 1

ReleasedStays ==
    \A cid \in DOMAIN self.campaigns :
        \A i \in 1..Len(Milestones(self, cid)) :
            Milestones(self, cid)[i].released =>
                /\ i <= Len(Milestones(self', cid))
                /\ Milestones(self', cid)[i].released

\* C8: the funds of a milestone are transferred at most once, and a released
\* flag that is true stays true, in every run of the milestone messages and
\* withdraw_funds, nested in a transfer or not.
C8_MilestoneReleasedOnce == []MilestonePaidOnce /\ [][ReleasedStays]_vars

ReleasedInOrder(ms) ==
    \A i \in 2..Len(ms) : ms[i].released => ms[i - 1].released

PaidInOrder ==
    \A k \in DOMAIN transfers :
        k.kind = "milestone" /\ k.idx > 0 =>
            Transferred(MilestoneKey(k.cid, k.who, k.idx - 1)) > 0

\* C9: in every reachable state, a milestone with index i > 0 is released only
\* if milestone i-1 is released, and was paid only after milestone i-1 was paid.
C9_ReleasedInIndexOrder ==
    /\ \A cid \in DOMAIN self.campaigns : ReleasedInOrder(Milestones(self, cid))
    /\ PaidInOrder

\* the second milestone of a campaign is released
C9_Witness ==
    \E cid \in DOMAIN self.campaigns :
        /\ Len(Milestones(self, cid)) = 2
        /\ Milestones(self, cid)[2].released
        /\ Milestones(self, cid)[1].released

Voted(s, cid, idx, voter) == <<cid, idx, voter>> \in DOMAIN s.milestone_votes

\* what a vote_on_milestone that returned o did to the storage s
VoteEffect(o, s, voter, cid, idx, approve) ==
    LET w == DonorTotal(Donations(s, cid), voter)
        before == s.campaigns[cid].milestones[idx + 1]
        after == o.s.campaigns[cid].milestones[idx + 1]
    IN IF o.res = "Ok"
       THEN /\ ~Voted(s, cid, idx, voter)
            /\ w > 0
            /\ o.s.milestone_votes[<<cid, idx, voter>>] = w
            /\ after.votes_for = before.votes_for + (IF approve THEN w ELSE 0)
            /\ after.votes_against = before.votes_against + (IF approve THEN 0 ELSE w)
       ELSE o.s = s

VotesAreWeighted ==
    \A key \in DOMAIN self.milestone_votes :
        /\ self.milestone_votes[key] = DonorTotal(Donations(self, key[1]), key[3])
        /\ self.milestone_votes[key] > 0

VotesStay ==
    \A key \in DOMAIN self.milestone_votes :
        /\ key \in DOMAIN self'.milestone_votes
        /\ self'.milestone_votes[key] = self.milestone_votes[key]

VoteOnce ==
    \A voter \in Accounts, cid \in AnyIds, idx \in MilestoneIndexes, approve \in BOOLEAN :
        LET o == vote_on_milestone(self, voter, cid, idx, approve) IN
        /\ ~o.susp
        /\ o.res = "Ok" \/ o.s = self
        /\ o.res = "Ok" => VoteEffect(o, self, voter, cid, idx, approve)
        /\ Voted(self, cid, idx, voter) => o.res # "Ok"
        /\ DonorTotal(Donations(self, cid), voter) = 0 => o.res # "Ok"

\* C10: a vote_on_milestone that returns Ok is the voter's first on that
\* milestone, records the sum of the voter's donations to the campaign as its
\* weight and adds it to votes_for or votes_against alone; one by a voter who
\* has voted on that milestone, or who has no donation in the campaign, fails
\* and leaves the storage as it was; a recorded weight never changes.
C10_OneVotePerVoter == []VoteOnce /\ []VotesAreWeighted /\ [][VotesStay]_vars

\* both donors have voted on the first milestone, one for and one against
C10_Witness ==
    \E cid \in DOMAIN self.campaigns :
        /\ Len(Milestones(self, cid)) > 0
        /\ \A voter \in Donors : Voted(self, cid, 0, voter)
        /\ Milestones(self, cid)[1].votes_for = MIN_DONATION
        /\ Milestones(self, cid)[1].votes_against = MIN_DONATION

----------------------------------------------------------------------------
(* Milestone approval: a campaign funded by two donors of unequal weight *)

ApprovalGoal == 9000000

\* what each donor gives: 70/30, 60/40, 2/1 and 7/4 splits of the votes
ApprovalAmounts(donor) ==
    IF donor = "bob" THEN {6000000, 7000000} ELSE {3000000, 4000000}

NextApproval ==
    \/ \E caller \in Owners, off \in DeadlineOffsets, beneficiary \in Beneficiaries :
          CreateCampaign(caller, 5, 10, ApprovalGoal, now + off, beneficiary)
    \/ \E caller \in Donors, cid \in CampaignIds :
          \E amount \in ApprovalAmounts(caller) : Donate(caller, cid, amount)
    \/ \E caller \in Owners, cid \in CampaignIds, data \in MilestoneInputs :
          AddMilestones(caller, cid, data)
    \/ \E caller \in Owners, cid \in CampaignIds, idx \in MilestoneIndexes :
          ActivateMilestoneVoting(caller, cid, idx)
    \/ \E caller \in Donors, cid \in CampaignIds, idx \in MilestoneIndexes,
          approve \in BOOLEAN : VoteOnMilestone(caller, cid, idx, approve)
    \/ \E caller \in Accounts, cid \in CampaignIds, idx \in MilestoneIndexes :
          ReleaseMilestoneFunds(caller, cid, idx)
    \/ ExternalReturn

SpecApproval == Init /\ [][NextApproval]_vars

\* the milestone has a vote and floor(votes_for * 100 / all votes) >= 66
ApprovalMet(m) ==
    /\ m.votes_for + m.votes_against > 0
    /\ (m.votes_for * 100) \div (m.votes_for + m.votes_against) >= APPROVAL_THRESHOLD

HasMilestone(s, cid, idx) == idx + 1 <= Len(Milestones(s, cid))

ReleaseNeedsApproval ==
    \A caller \in Accounts, cid \in AnyIds, idx \in MilestoneIndexes :
        LET o == release_milestone_funds(self, caller, cid, idx) IN
        /\ (o.susp \/ o.res = "Ok") =>
              HasMilestone(self, cid, idx) /\ ApprovalMet(Milestones(self, cid)[idx + 1])
        /\ (HasMilestone(self, cid, idx) /\ ~ApprovalMet(Milestones(self, cid)[idx + 1])) =>
              ~o.susp /\ o.res # "Ok" /\ o.s = self

MilestonePaidOnApproval ==
    \A k \in DOMAIN transfers' :
        (k.kind = "milestone" /\ transfers'[k] > Transferred(k)) =>
            /\ HasMilestone(self, k.cid, k.idx)
            /\ ApprovalMet(Milestones(self, k.cid)[k.idx + 1])

Authorized(s, cid, caller) ==
    cid \in DOMAIN s.campaigns /\ (caller = s.campaigns[cid].owner \/ caller = s.admin)

WithdrawKey(cid, who) == [kind |-> "withdraw", cid |-> cid, who |-> who, idx |-> -1]

WithdrawRefusals ==
    \A cid \in DOMAIN self.campaigns, caller \in Accounts :
        (~self.locked /\ Authorized(self, cid, caller)) =>
            LET o == withdraw_funds(self, caller, cid, now)
                campaign == self.campaigns[cid]
            IN /\ campaign.state = "Withdrawn" =>
                     Rejects(o, self, "FundsAlreadyWithdrawn")
               /\ (campaign.state \in {"Active", "Failed"} /\ now <= campaign.deadline) =>
                     Rejects(o, self, "GoalNotReached")

OneWithdrawalPerCampaign ==
    \A k \in DOMAIN transfers : k.kind = "withdraw" => transfers[k] <= 1

\* C12: withdraw_funds by the owner or the admin fails with
\* FundsAlreadyWithdrawn on a Withdrawn campaign and with GoalNotReached on a
\* campaign that is not Successful before its deadline, the storage unchanged
\* and nothing transferred; the beneficiary of a campaign receives at most one
\* withdrawal transfer.
C12_WithdrawPaysOnce == WithdrawRefusals /\ OneWithdrawalPerCampaign

----------------------------------------------------------------------------
(* Fees: donations whose 3% is not a whole number of planck *)

FeeAmounts == {1000000, 1000033, 1000067}

NextFees ==
    \/ \E caller \in Owners, title_len \in TitleLens, desc_len \in DescLens,
          goal \in Goals, off \in DeadlineOffsets, beneficiary \in Beneficiaries :
          CreateCampaign(caller, title_len, desc_len, goal, now + off, beneficiary)
    \/ \E caller \in Donors, cid \in CampaignIds, amount \in FeeAmounts :
          Donate(caller, cid, amount)
    \/ \E caller \in Accounts, cid \in CampaignIds : WithdrawFunds(caller, cid)
    \/ ExternalReturn
    \/ \E t \in Instants(self) : Tick(t)

SpecFees == Init /\ [][NextFees]_vars

RECURSIVE FeesTaken(_)
\* what process_donation sent to the treasury for the donations ds
FeesTaken(ds) == IF ds = <<>> THEN 0 ELSE Fee(Head(ds).amount) + FeesTaken(Tail(ds))

\* C13: the amount withdraw_funds transfers to the beneficiary is the gross
\* raised, minus the fees sent to the treasury when the campaign's donations
\* were made, plus matching_amount.
C13_PayoutIsRaisedMinusFeesTaken ==
    \A cid \in DOMAIN self.campaigns, caller \in Accounts :
        LET o == withdraw_funds(self, caller, cid, now) IN
        o.susp =>
            /\ o.frame.to = self.campaigns[cid].beneficiary
            /\ o.frame.value = self.campaigns[cid].raised
                                 - FeesTaken(Donations(self, cid))
                                 + self.campaigns[cid].matching_amount

----------------------------------------------------------------------------
(* Failed campaigns: withdrawal and refunds *)

\* the campaign is in the Failed state, or its deadline has passed below the goal
FailedCampaign(s, cid, t) ==
    LET campaign == s.campaigns[cid] IN
    \/ campaign.state = "Failed"
    \/ (t > campaign.deadline /\ campaign.raised < campaign.goal)

\* C14: withdraw_funds on a failed campaign (Failed, or deadline passed with
\* raised below the goal) never reaches a transfer to the beneficiary,
\* whoever calls it.
C14_FailedWithdrawNeverTransfers ==
    \A cid \in DOMAIN self.campaigns, caller \in Accounts :
        FailedCampaign(self, cid, now) => ~withdraw_funds(self, caller, cid, now).susp

\* donor has an unclaimed refund on a campaign in the Failed state
RefundDue(s, cid, donor) ==
    /\ cid \in DOMAIN s.campaigns
    /\ s.campaigns[cid].state = "Failed"
    /\ DonorTotal(Donations(s, cid), donor) > 0
    /\ ~RefundClaimed(s, cid, donor)

RefundStaysDue ==
    \A cid \in DOMAIN self.campaigns, donor \in Accounts :
        RefundDue(self, cid, donor) =>
            RefundDue(self', cid, donor) \/ RefundClaimed(self', cid, donor)

\* C15: once a campaign is Failed, a donor's refund stays due until that donor
\* claims it: no step by anyone else (withdraw_funds by the owner or admin
\* included) takes it away.
C15_RefundEligibilityPersists == [][RefundStaysDue]_vars

\* the transfer of a refund fails
TransferFails == <<FALSE>>

FailedRefundCanRetry ==
    \A cid \in DOMAIN self.campaigns, donor \in Accounts :
        LET o == claim_refund(self, donor, cid) IN
        o.susp =>
            LET r == Returns(o, TransferFails)
                again == claim_refund(r.s, donor, cid)
            IN /\ ~r.susp /\ r.res = "TransferFailed"
               /\ ~RefundClaimed(r.s, cid, donor)
               /\ r.s = UnmarkClaimed(self, cid, donor)
               /\ again.susp
               /\ again.frame.to = donor
               /\ again.frame.value = DonorTotal(Donations(self, cid), donor)
               /\ Returns(again, <<TRUE>>).res = "Ok"
               /\ RefundClaimed(Returns(again, <<TRUE>>).s, cid, donor)

\* C16: when the transfer of claim_refund fails, the call returns
\* TransferFailed and leaves the (campaign, donor) pair unclaimed and the rest
\* of the storage as it was, so that the donor's next claim_refund reaches the
\* transfer of the same amount and succeeds when that transfer does.
C16_FailedRefundLeavesNoMarker == FailedRefundCanRetry

\* a refund transfer has failed: the pair has an entry, and it says unclaimed
C16_Witness ==
    \E cid \in DOMAIN self.campaigns, donor \in Accounts :
        /\ <<cid, donor>> \in DOMAIN self.refund_claimed
        /\ ~self.refund_claimed[<<cid, donor>>]
        /\ self.campaigns[cid].state = "Failed"
        /\ claim_refund(self, donor, cid).susp

----------------------------------------------------------------------------
(* Donations: goal, validation, deadline *)

\* donation amounts around the goal of the campaigns of Goals
GoalAmounts == {1000000, 1999999, 2000000, 2000001}

GoalDecidesState ==
    \A cid \in DOMAIN self.campaigns, donor \in Accounts, amount \in GoalAmounts :
        LET r == Returns(donate(self, donor, cid, amount, now), <<TRUE, TRUE>>)
            campaign == self.campaigns[cid]
        IN r.res = "Ok" =>
              /\ r.s.campaigns[cid].raised = campaign.raised + amount
              /\ r.s.campaigns[cid].state =
                    IF campaign.raised + amount >= campaign.goal
                    THEN "Successful" ELSE "Active"
              /\ (campaign.raised = 0 /\ amount = campaign.goal) =>
                    r.s.campaigns[cid].state = "Successful"

StateMatchesRaised ==
    \A cid \in DOMAIN self.campaigns :
        LET campaign == self.campaigns[cid] IN
        /\ campaign.state = "Active" => campaign.raised < campaign.goal
        /\ campaign.state = "Successful" => campaign.raised >= campaign.goal

\* C17: a donate that returns Ok leaves the campaign Successful if raised has
\* reached the goal and Active otherwise (a first donation of exactly the goal
\* makes it Successful); every Active campaign has raised < goal and every
\* Successful campaign has raised >= goal.
C17_GoalDecidesState == GoalDecidesState /\ StateMatchesRaised

\* a donation has brought raised to exactly the goal
C17_Witness ==
    \E cid \in DOMAIN self.campaigns :
        /\ self.campaigns[cid].state = "Successful"
        /\ self.campaigns[cid].raised = self.campaigns[cid].goal
        /\ Len(Donations(self, cid)) = MaxDonations

\* amounts at and below the minimum donation
SmallAmounts == {0, MIN_DONATION - 1, MIN_DONATION}

\* the ledger side of a campaign: raised, donation_count and the donation list
Ledger(s, cid) ==
    <<s.campaigns[cid].raised, s.campaigns[cid].donation_count, Donations(s, cid)>>

RejectedDonations ==
    \A cid \in DOMAIN self.campaigns, donor \in Accounts :
        LET campaign == self.campaigns[cid] IN
        ~self.locked =>
            /\ \A amount \in SmallAmounts \ {MIN_DONATION} :
                  Rejects(donate(self, donor, cid, amount, now), self, "InvalidDonationAmount")
            /\ campaign.state # "Active" =>
                  LET r == Returns(donate(self, donor, cid, MIN_DONATION, now), <<TRUE, TRUE>>)
                  IN r.res = "CampaignNotActive" /\ r.s = self
            /\ \A amount \in SmallAmounts, oks \in AllOks :
                  LET r == Returns(donate(self, donor, cid, amount, now), oks) IN
                  r.res # "Ok" =>
                      /\ Ledger(r.s, cid) = Ledger(self, cid)
                      /\ r.res # "DeadlinePassed" => r.s = self

MinimumAccepted ==
    \A cid \in DOMAIN self.campaigns, donor \in Accounts :
        LET campaign == self.campaigns[cid]
            r == Returns(donate(self, donor, cid, MIN_DONATION, now), <<TRUE, TRUE>>)
        IN (~self.locked /\ campaign.state = "Active" /\ now <= campaign.deadline) =>
              /\ r.res = "Ok"
              /\ Ledger(r.s, cid) =
                    <<campaign.raised + MIN_DONATION, campaign.donation_count + 1,
                      Append(Donations(self, cid),
                             [donor |-> donor, amount |-> MIN_DONATION])>>

LateDonationFails ==
    \A cid \in DOMAIN self.campaigns, donor \in Accounts, amount \in Amounts :
        LET campaign == self.campaigns[cid]
            r == Returns(donate(self, donor, cid, amount, now), <<TRUE, TRUE>>)
        IN (~self.locked /\ campaign.state = "Active" /\ now > campaign.deadline) =>
              /\ r.res = "DeadlinePassed"
              /\ Ledger(r.s, cid) = Ledger(self, cid)
              /\ r.s = InsertCampaign(self, cid, [campaign EXCEPT !.state = "Failed"])

DonationAtDeadlineAccepted ==
    \A cid \in DOMAIN self.campaigns, donor \in Accounts, amount \in Amounts :
        LET campaign == self.campaigns[cid]
            r == Returns(donate(self, donor, cid, amount, now), <<TRUE, TRUE>>)
        IN (~self.locked /\ campaign.state = "Active" /\ now = campaign.deadline) =>
              /\ r.res = "Ok"
              /\ r.s.campaigns[cid].raised = campaign.raised + amount
              /\ Len(Donations(r.s, cid)) = Len(Donations(self, cid)) + 1

\* C19: donate to an Active campaign at now > deadline returns DeadlinePassed,
\* leaves raised, donation_count and the donation list as they were and stores
\* the campaign as Failed; at now = deadline the donation is recorded.
C19_LateDonationFailsCampaign == LateDonationFails /\ DonationAtDeadlineAccepted

\* a campaign with a donation, still Active after its deadline
C19_Witness ==
    \E cid \in DOMAIN self.campaigns :
        /\ ~self.locked
        /\ self.campaigns[cid].state = "Active"
        /\ self.campaigns[cid].raised > 0
        /\ now > self.campaigns[cid].deadline
        /\ Returns(donate(self, "bob", cid, MIN_DONATION, now), <<TRUE, TRUE>>).s
              .campaigns[cid].state = "Failed"

----------------------------------------------------------------------------
(* Authorization *)

PoolAmounts == {0, 100}
RoundDurations == {1000}
RoundIds == 0..MaxRounds
BatchSizes == {1, DEFAULT_MAX_BATCH_SIZE}

\* a beneficiary without code, who is neither owner nor admin
PlainBeneficiaries == {"bob"}

NextAuth ==
    \/ \E caller \in Owners, title_len \in TitleLens, desc_len \in DescLens,
          goal \in Goals, off \in DeadlineOffsets, beneficiary \in PlainBeneficiaries :
          CreateCampaign(caller, title_len, desc_len, goal, now + off, beneficiary)
    \/ \E caller \in Donors, cid \in CampaignIds, amount \in Amounts :
          Donate(caller, cid, amount)
    \/ \E caller \in Accounts, cid \in CampaignIds : WithdrawFunds(caller, cid)
    \/ \E caller \in Accounts, cid \in CampaignIds : CancelCampaign(caller, cid)
    \/ \E caller \in Accounts, cid \in CampaignIds, data \in MilestoneInputs :
          AddMilestones(caller, cid, data)
    \/ \E caller \in Accounts, cid \in CampaignIds, idx \in MilestoneIndexes :
          ActivateMilestoneVoting(caller, cid, idx)
    \/ \E caller \in Donors, cid \in CampaignIds, idx \in MilestoneIndexes :
          VoteOnMilestone(caller, cid, idx, TRUE)
    \/ \E caller \in Accounts, cid \in CampaignIds, idx \in MilestoneIndexes :
          ReleaseMilestoneFunds(caller, cid, idx)
    \/ \E caller \in Accounts, amount \in PoolAmounts \ {0} : FundMatchingPool(caller, amount)
    \/ \E caller \in Accounts, pool_amount \in PoolAmounts, duration \in RoundDurations :
          CreateMatchingRound(caller, pool_amount, duration)
    \/ \E caller \in Accounts, round_id \in RoundIds :
          CalculateAndDistributeMatching(caller, round_id)
    \/ \E t \in Instants(self) \cup RoundInstants(self) : Tick(t)

SpecAuth == Init /\ [][NextAuth]_vars

\* caller is neither the owner of campaign cid nor the admin
Stranger(s, cid, caller) ==
    cid \in DOMAIN s.campaigns /\ caller # s.campaigns[cid].owner /\ caller # s.admin

CampaignCallsNeedOwner ==
    \A cid \in DOMAIN self.campaigns, caller \in Accounts :
        Stranger(self, cid, caller) =>
            /\ Rejects(cancel_campaign(self, caller, cid), self, "NotCampaignOwner")
            /\ ~self.locked =>
                  Rejects(withdraw_funds(self, caller, cid, now), self, "NotCampaignOwner")
            /\ \A idx \in MilestoneIndexes \cup {Cardinality(MilestoneIndexes)} :
                  Rejects(release_milestone_funds(self, caller, cid, idx), self,
                          "NotCampaignOwner")

AdminCallsNeedAdmin ==
    \A caller \in Accounts \ {self.admin} :
        /\ \A pool_amount \in PoolAmounts, duration \in RoundDurations :
              Rejects(create_matching_round(self, caller, pool_amount, duration, now),
                      self, "NotCampaignOwner")
        /\ \A round_id \in RoundIds :
              Rejects(calculate_and_distribute_matching(self, caller, round_id, now),
                      self, "NotCampaignOwner")
        /\ \A size \in BatchSizes :
              Rejects(set_max_batch_size(self, caller, size), self, "NotCampaignOwner")

CancelOnlyActive ==
    \A cid \in DOMAIN self.campaigns, caller \in Accounts :
        LET campaign == self.campaigns[cid]
            o == cancel_campaign(self, caller, cid)
        IN ~Stranger(self, cid, caller) =>
              IF campaign.state = "Active"
              THEN /\ ~o.susp /\ o.res = "Ok"
                   /\ o.s = InsertCampaign(self, cid, [campaign EXCEPT !.state = "Failed"])
              ELSE Rejects(o, self, "CampaignNotActive")

\* C20: on an existing campaign, cancel_campaign, withdraw_funds (outside a
\* guarded message) and release_milestone_funds called by an account that is
\* neither its owner nor the admin return NotCampaignOwner; so do
\* create_matching_round, calculate_and_distribute_matching and
\* set_max_batch_size called by anyone but the admin; each leaves the whole
\* storage as it was and reaches no transfer.  cancel_campaign by the owner or
\* the admin returns Ok exactly on an Active campaign, which it stores as
\* Failed, and CampaignNotActive otherwise.
C20_OnlyOwnerOrAdmin == CampaignCallsNeedOwner /\ AdminCallsNeedAdmin /\ CancelOnlyActive

\* a state in which the owner could withdraw and release, and the admin could
\* close a funded round: a stranger's calls are refused on that state
C20_Witness ==
    \E cid \in DOMAIN self.campaigns, round_id \in DOMAIN self.matching_rounds :
        /\ Stranger(self, cid, "bob")
        /\ withdraw_funds(self, self.campaigns[cid].owner, cid, now).susp
        /\ \E idx \in MilestoneIndexes :
              release_milestone_funds(self, self.campaigns[cid].owner, cid, idx).susp
        /\ self.matching_rounds[round_id].pool_amount > 0
        /\ calculate_and_distribute_matching(self, self.admin, round_id, now).res = "Ok"

----------------------------------------------------------------------------
(* Batches *)

GoodEntry == [title_len |-> 5, desc_len |-> 10, goal |-> 2000000, off |-> 3600001,
              beneficiary |-> "carol"]
\* an entry create_campaign refuses: its title is empty
BadEntry == [GoodEntry EXCEPT !.title_len = 0]
\* one entry more than the default max_batch_size allows
LongCreateBatch == [i \in 1..(DEFAULT_MAX_BATCH_SIZE + 1) |-> GoodEntry]
CreateBatches ==
    { <<GoodEntry>>, <<BadEntry, GoodEntry>>, <<GoodEntry, BadEntry, GoodEntry>>,
      LongCreateBatch }
BatchCampaignIds == 0..(MaxBatchCampaigns - 1)
WithdrawBatches == { <<0, 1>>, <<1, 0, 1>>, LongBatch }
SmallBatchSizes == {2}

NextBatch ==
    \/ \E caller \in Owners, entries \in CreateBatches :
          CreateCampaignsBatch(caller, entries)
    \/ \E caller \in Donors, cid \in BatchCampaignIds, amount \in Amounts :
          Donate(caller, cid, amount)
    \/ \E caller \in Accounts, ids \in WithdrawBatches : WithdrawFundsBatch(caller, ids)
    \/ \E caller \in Accounts, size \in SmallBatchSizes : SetMaxBatchSize(caller, size)
    \/ ExternalReturn
    \/ \E t \in Instants(self) : Tick(t)

SpecBatch == Init /\ [][NextBatch]_vars

\* batches of 0 to 3 entries and of 51: with max_batch_size 2 (set by the
\* admin) or 50 (the default), some are at the limit and some above it
AnyCreateBatches == CreateBatches \cup {<<>>, <<BadEntry, BadEntry>>}
AnyWithdrawBatches == WithdrawBatches \cup {<<>>, <<0>>}

\* the tally returned by a batch covers n entries
TallyCovers(r, n) ==
    /\ ~r.susp /\ r.res = "Ok"
    /\ r.val[1] + r.val[2] = n

CreateBatchSizeLimit ==
    \A caller \in Accounts, entries \in AnyCreateBatches :
        LET o == create_campaigns_batch(self, caller, DeadlinesFrom(entries, now), now) IN
        IF Len(entries) > self.max_batch_size
        THEN Rejects(o, self, "BatchSizeTooLarge")
        ELSE TallyCovers(o, Len(entries))

WithdrawBatchSizeLimit ==
    \A caller \in Accounts, ids \in AnyWithdrawBatches, oks \in AllOks :
        LET o == withdraw_funds_batch(self, caller, ids, now) IN
        IF Len(ids) > self.max_batch_size
        THEN Rejects(o, self, "BatchSizeTooLarge")
        ELSE ~self.locked => TallyCovers(Returns(o, oks), Len(ids))

\* C21: create_campaigns_batch and withdraw_funds_batch with more entries than
\* max_batch_size return BatchSizeTooLarge and leave the whole storage
\* (campaigns, campaign_count, lock) as it was; with at most max_batch_size
\* entries, exactly max_batch_size included, the batch is processed and its
\* tally covers every entry.
C21_OversizedBatchFailsWhole == CreateBatchSizeLimit /\ WithdrawBatchSizeLimit

\* max_batch_size is 2, two campaigns exist: batches of 2 are at the limit and
\* batches of 3 above it
C21_Witness ==
    /\ self.max_batch_size = 2
    /\ self.campaign_count = MaxBatchCampaigns
    /\ ~self.locked
    /\ withdraw_funds_batch(self, "carol", <<0, 1>>, now).susp
    /\ Rejects(withdraw_funds_batch(self, "carol", <<1, 0, 1>>, now), self,
               "BatchSizeTooLarge")

\* batches within the size limit of the state s
WithinLimit(s, batches) == { b \in batches : Len(b) <= s.max_batch_size }

\* C22: called while the lock is held, by the account the transfer in progress
\* runs, create_campaigns_batch and withdraw_funds_batch (within the size
\* limit) return ReentrantCall and perform no inner operation.
C22_BatchesRefusedUnderLock ==
    (self.locked /\ stack # <<>>) =>
        /\ \A entries \in WithinLimit(self, AnyCreateBatches) :
              Rejects(create_campaigns_batch(self, Top.to, DeadlinesFrom(entries, now), now),
                      self, "ReentrantCall")
        /\ \A ids \in WithinLimit(self, AnyWithdrawBatches) :
              Rejects(withdraw_funds_batch(self, Top.to, ids, now), self, "ReentrantCall")

\* the part of C22 about withdraw_funds_batch alone
WithdrawBatchGuardedOnce ==
    /\ (\E i \in 1..Len(stack) : stack[i].op = "withdraw_funds_batch") => self.locked
    /\ self.locked =>
          \A caller \in Accounts, ids \in WithinLimit(self, AnyWithdrawBatches) :
              Rejects(withdraw_funds_batch(self, caller, ids, now), self, "ReentrantCall")

RECURSIVE IsSubsequence(_, _)
\* a is b with some entries left out
IsSubsequence(a, b) ==
    IF a = <<>> THEN TRUE
    ELSE IF b = <<>> THEN FALSE
    ELSE IF Head(a) = Head(b) /\ IsSubsequence(Tail(a), Tail(b)) THEN TRUE
    ELSE IsSubsequence(a, Tail(b))

\* the entries of a batch that create_campaign accepts on their own
Accepted(s, caller, data) ==
    { i \in 1..Len(data) :
        create_campaign(s, caller, data[i].title_len, data[i].desc_len, data[i].goal,
                        data[i].deadline, data[i].beneficiary, now).res = "Ok" }

CreateBatchTallies ==
    \A caller \in Accounts, entries \in WithinLimit(self, AnyCreateBatches) :
        LET data == DeadlinesFrom(entries, now)
            o == create_campaigns_batch(self, caller, data, now)
            n == Cardinality(Accepted(self, caller, data))
        IN /\ TallyCovers(o, Len(entries))
           /\ o.val[1] = n
           /\ o.val[3] = [i \in 1..n |-> self.campaign_count + i - 1]
           /\ o.s.campaign_count = self.campaign_count + n
           /\ \A cid \in DOMAIN self.campaigns : o.s.campaigns[cid] = self.campaigns[cid]
           /\ \A i \in 1..n :
                 /\ o.val[3][i] \in DOMAIN o.s.campaigns
                 /\ o.s.campaigns[o.val[3][i]].state = "Active"
                 /\ o.s.campaigns[o.val[3][i]].owner = caller

\* what an entry of withdraw_funds_batch that succeeded leaves behind
WithdrawalKept(s, cid) ==
    /\ cid \in DOMAIN s.campaigns
    /\ \/ s.campaigns[cid].state = "Withdrawn"
       \/ s.campaigns[cid].state = "Failed" /\ s.campaigns[cid].raised = 0

WithdrawBatchTallies ==
    \A caller \in Accounts, ids \in WithinLimit(self, AnyWithdrawBatches), oks \in AllOks :
        ~self.locked =>
            LET r == Run(withdraw_funds_batch(self, caller, ids, now), oks, <<>>, now, FALSE)
            IN /\ TallyCovers(r.o, Len(ids))
               /\ Len(r.o.val[3]) = r.o.val[1]
               /\ IsSubsequence(r.o.val[3], ids)
               /\ \A i \in 1..Len(r.o.val[3]) : WithdrawalKept(r.o.s, r.o.val[3][i])
               /\ Len(r.paid) <= r.o.val[1]
               /\ \A i \in 1..Len(r.paid) :
                     \E j \in 1..Len(r.o.val[3]) : r.paid[i].cid = r.o.val[3][j]

\* a batch withdrawal suspended in an inner transfer goes on to the end of its list
SuspendedBatchGoesOn ==
    (stack # <<>> /\ Top.op = "withdraw_funds_batch") =>
        \A oks \in AllOks :
            LET r == Returns(Resume(self, Top, now), oks) IN
            TallyCovers(r, Top.tally.successful + Top.tally.failed + 1 + Len(Top.ids))

\* C23: a batch within the size limit attempts every entry in order and
\* returns Ok with a tally in which successful + failed is the number of
\* entries and success_ids lists, in input order, the ids of the entries that
\* succeeded; what the successful entries did (campaigns created, campaigns
\* paid out and marked Withdrawn) stays when other entries fail.
C23_BatchTalliesEveryEntry ==
    CreateBatchTallies /\ WithdrawBatchTallies /\ SuspendedBatchGoesOn

\* a batch withdrawal has paid out campaign 0 although its entry for campaign 1 failed
C23_Witness ==
    /\ stack = <<>>
    /\ 1 \in DOMAIN self.campaigns
    /\ self.campaigns[0].state = "Withdrawn"
    /\ self.campaigns[1].state = "Active"

----------------------------------------------------------------------------
(* create_campaign: validation and ids *)

AnyTitleLens == {0, 1, MAX_TITLE_LEN, MAX_TITLE_LEN + 1}
AnyDescLens == {0, MAX_DESCRIPTION_LEN, MAX_DESCRIPTION_LEN + 1}
AnyGoals == {0, 1, 2000000}
AnyBeneficiaries == {ZeroAccount, "bob"}
\* a deadline that is now, and deadlines two and three hours away
AnyOffsets == {0, 7200000, 10800000}

NextCreate ==
    \/ \E caller \in Accounts, title_len \in AnyTitleLens, desc_len \in AnyDescLens,
          goal \in AnyGoals, off \in AnyOffsets, beneficiary \in AnyBeneficiaries :
          CreateCampaignOfMany(caller, title_len, desc_len, goal, now + off, beneficiary)
    \/ \E t \in Instants(self) : Tick(t)

SpecCreate == Init /\ [][NextCreate]_vars

\* the errors the claim gives for the invalid inputs among those given
ExpectedErrors(title_len, desc_len, goal, off, beneficiary) ==
    (IF title_len = 0 \/ title_len > 100 THEN {"InvalidTitle"} ELSE {})
    \cup (IF desc_len > 1000 THEN {"InvalidDescription"} ELSE {})
    \cup (IF goal = 0 THEN {"InvalidGoal"} ELSE {})
    \cup (IF beneficiary = ZeroAccount THEN {"InvalidBeneficiary"} ELSE {})
    \cup (IF off = 0 THEN {"InvalidDeadline"} ELSE {})

CreateValidates ==
    \A caller \in Accounts, title_len \in AnyTitleLens, desc_len \in AnyDescLens,
       goal \in AnyGoals, off \in AnyOffsets, beneficiary \in AnyBeneficiaries :
        LET o == create_campaign(self, caller, title_len, desc_len, goal, now + off,
                                 beneficiary, now)
            errors == ExpectedErrors(title_len, desc_len, goal, off, beneficiary)
            id == self.campaign_count
        IN IF errors # {}
           THEN \E err \in errors : Rejects(o, self, err)
           ELSE /\ ~o.susp /\ o.res = "Ok" /\ o.val = <<id>>
                /\ o.s.campaign_count = id + 1
                /\ DOMAIN o.s.campaigns = DOMAIN self.campaigns \cup {id}
                /\ \A cid \in DOMAIN self.campaigns : o.s.campaigns[cid] = self.campaigns[cid]
                /\ o.s.campaigns[id].state = "Active"
                /\ o.s.campaigns[id].raised = 0
                /\ o.s.campaigns[id].owner = caller
                /\ o.s.campaigns[id].goal = goal
                /\ o.s.campaigns[id].deadline = now + off
                /\ o.s.campaigns[id].beneficiary = beneficiary
                /\ [o.s EXCEPT !.campaigns = self.campaigns,
                               !.campaign_donations = self.campaign_donations,
                               !.campaign_count = id] = self

\* the ids in use are 0 .. campaign_count - 1, so the next id is a new one
IdsAreDense == DOMAIN self.campaigns = 0..(self.campaign_count - 1)

EdgeOffsets == {MIN_DEADLINE_OFFSET - 1, MIN_DEADLINE_OFFSET, MIN_DEADLINE_OFFSET + 1}

\* C25: create_campaign accepts a deadline d at or after now + 1 hour (and
\* within a year) and rejects an earlier one with InvalidDeadline.
C25_DeadlineWindowInclusive ==
    \A caller \in Accounts, off \in EdgeOffsets \cup AnyOffsets :
        LET o == create_campaign(self, caller, 1, 0, 1, now + off, "bob", now) IN
        IF off >= MIN_DEADLINE_OFFSET
        THEN o.res = "Ok"
        ELSE Rejects(o, self, "InvalidDeadline")

----------------------------------------------------------------------------
(* Quadratic-funding rounds *)

\* donations whose square roots are 1000 and 1414
MatchAmounts == {1000000, 2000000}

MatchDonors == {"bob"}

\* amounts paid into the pool and pools of a round: a part and the whole
MatchFunds == {40, 60}
MatchPools == {0, 40, 100}

NextMatching ==
    \/ \E caller \in MatchDonors, amount \in MatchFunds : FundMatchingPool(caller, amount)
    \/ \E caller \in Accounts, pool_amount \in MatchPools, duration \in RoundDurations :
          CreateMatchingRound(caller, pool_amount, duration)
    \/ \E caller \in Owners, title_len \in TitleLens, desc_len \in DescLens,
          goal \in Goals, off \in DeadlineOffsets, beneficiary \in PlainBeneficiaries :
          CreateCampaignOfMany(caller, title_len, desc_len, goal, now + off, beneficiary)
    \/ \E caller \in MatchDonors, cid \in BatchCampaignIds, amount \in MatchAmounts :
          Donate(caller, cid, amount)
    \/ \E caller \in Owners, cid \in BatchCampaignIds : CancelCampaign(caller, cid)
    \/ \E caller \in Accounts, round_id \in RoundIds :
          CalculateAndDistributeMatching(caller, round_id)
    \/ \E t \in RoundInstants(self) : Tick(t)

SpecMatching == Init /\ [][NextMatching]_vars

\* the answer the claim gives to a distribution call
DistributionAnswer(s, caller, round_id, t) ==
    IF caller # s.admin THEN "NotCampaignOwner"
    ELSE IF round_id \notin DOMAIN s.matching_rounds THEN "CampaignNotFound"
    ELSE IF s.matching_rounds[round_id].distributed THEN "FundsAlreadyWithdrawn"
    ELSE IF t < s.matching_rounds[round_id].end_time THEN "DeadlinePassed"
    ELSE "Ok"

DistributionGuarded ==
    \A caller \in Accounts, round_id \in RoundIds :
        LET o == calculate_and_distribute_matching(self, caller, round_id, now)
            answer == DistributionAnswer(self, caller, round_id, now)
        IN /\ ~o.susp /\ o.res = answer
           /\ answer # "Ok" => o.s = self
           /\ answer = "Ok" =>
                 /\ o.s.matching_rounds[round_id].distributed
                 /\ Rejects(calculate_and_distribute_matching(o.s, caller, round_id, now),
                            o.s, "FundsAlreadyWithdrawn")

DistributedStays ==
    \A round_id \in DOMAIN self.matching_rounds :
        /\ round_id \in DOMAIN self'.matching_rounds
        /\ self.matching_rounds[round_id].distributed =>
              /\ self'.matching_rounds[round_id] = self.matching_rounds[round_id]
              /\ \A cid \in DOMAIN self.campaigns :
                    self.campaigns[cid].matching_round = round_id =>
                        self'.campaigns[cid].matching_amount
                            = self.campaigns[cid].matching_amount

\* C26: calculate_and_distribute_matching returns Ok only to the admin, for a
\* known round whose end_time has come and which is not yet distributed, and
\* then marks it distributed; any other call is rejected and changes nothing;
\* a distributed round stays distributed and the matching_amount of its
\* campaigns stays as distributed.
C26_DistributedOncePerRound == []DistributionGuarded /\ [][DistributedStays]_vars

\* a round has been distributed and has given a campaign its share
C26_Witness ==
    \E round_id \in DOMAIN self.matching_rounds, cid \in DOMAIN self.campaigns :
        /\ self.matching_rounds[round_id].distributed
        /\ self.campaigns[cid].matching_round = round_id
        /\ self.campaigns[cid].matching_amount > 0

TaggedWith(s, round_id) ==
    { cid \in DOMAIN s.campaigns : s.campaigns[cid].matching_round = round_id }

RECURSIVE SumOfScores(_, _)
SumOfScores(s, cids) ==
    IF cids = {} THEN 0
    ELSE LET cid == CHOOSE c \in cids : TRUE
         IN calculate_qf_score(s, cid) + SumOfScores(s, cids \ {cid})

RECURSIVE SumOfMatching(_, _)
SumOfMatching(s, cids) ==
    IF cids = {} THEN 0
    ELSE LET cid == CHOOSE c \in cids : TRUE
         IN s.campaigns[cid].matching_amount + SumOfMatching(s, cids \ {cid})

\* floor(score * pool_amount / S), and 0 where there is no score to share by
ShareOf(score, pool_amount, S) == IF S = 0 THEN 0 ELSE MulDiv(score, pool_amount, S)

Competing(s, round_id) ==
    { cid \in TaggedWith(s, round_id) : s.campaigns[cid].state # "Failed" }

RECURSIVE SumOfPools(_, _)
SumOfPools(s, round_ids) ==
    IF round_ids = {} THEN 0
    ELSE LET r == CHOOSE x \in round_ids : TRUE
         IN s.matching_rounds[r].pool_amount + SumOfPools(s, round_ids \ {r})

\* what has been paid into the pool and not paid out of it
PoolFunds(s) == s.matching_pool_balance + SumOfPools(s, DOMAIN s.matching_rounds)

CreateRoundDeducts ==
    \A pool_amount \in MatchPools, duration \in RoundDurations :
        LET o == create_matching_round(self, self.admin, pool_amount, duration, now)
            round_id == self.round_count
        IN IF pool_amount > self.matching_pool_balance
           THEN Rejects(o, self, "InsufficientMatchingPool")
           ELSE /\ ~o.susp /\ o.res = "Ok" /\ o.val = round_id
                /\ o.s.matching_pool_balance = self.matching_pool_balance - pool_amount
                /\ o.s.current_round = round_id
                /\ o.s.round_count = round_id + 1
                /\ o.s.matching_rounds[round_id].pool_amount = pool_amount
                /\ ~o.s.matching_rounds[round_id].distributed
                /\ PoolFunds(o.s) = PoolFunds(self)

FundAddsToPool ==
    \A caller \in Accounts, amount \in MatchFunds :
        LET o == fund_matching_pool(self, caller, amount)
        IN ~o.susp /\ o.res = "Ok" /\ PoolFunds(o.s) = PoolFunds(self) + amount

\* the funds of the pool change only by a payment into the pool
PoolFundsKept ==
    \/ PoolFunds(self') = PoolFunds(self)
    \/ \E caller \in Accounts, amount \in MatchFunds :
          /\ self' = fund_matching_pool(self, caller, amount).s
          /\ PoolFunds(self') = PoolFunds(self) + amount

MatchingWithinPool ==
    \A round_id \in DOMAIN self.matching_rounds :
        SumOfMatching(self, TaggedWith(self, round_id))
            <= self.matching_rounds[round_id].pool_amount

\* C28: called by the admin, create_matching_round fails with
\* InsufficientMatchingPool and changes nothing when pool_amount exceeds
\* matching_pool_balance, and otherwise deducts pool_amount from the balance
\* and makes the new round current; matching_pool_balance plus the pools of
\* all rounds starts at zero and changes only by the amount of a payment
\* through fund_matching_pool; the matching_amount of a round's campaigns
\* together never exceed its pool_amount.
C28_MatchingFundsConserved ==
    /\ [](CreateRoundDeducts /\ FundAddsToPool /\ MatchingWithinPool)
    /\ PoolFunds(self) = 0
    /\ [][PoolFundsKept]_vars

\* part of the pool went to a round that has been distributed, part is left
C28_Witness ==
    /\ self.matching_pool_balance > 0
    /\ \E round_id \in DOMAIN self.matching_rounds :
          /\ self.matching_rounds[round_id].pool_amount > 0
          /\ self.matching_rounds[round_id].distributed
          /\ SumOfMatching(self, TaggedWith(self, round_id)) > 0

\* the rounds a distribution called now would distribute
Distributable(s) ==
    { round_id \in DOMAIN s.matching_rounds :
        calculate_and_distribute_matching(s, s.admin, round_id, now).res = "Ok" }

\* C29: for every campaign of a round that is not yet distributed,
\* get_estimated_matching returns the matching_amount that
\* calculate_and_distribute_matching would assign to it in the same state,
\* also when some campaigns of the round are Failed.
C29_EstimateIsDistribution ==
    \A round_id \in Distributable(self) :
        \A cid \in TaggedWith(self, round_id) :
            get_estimated_matching(self, cid)
                = calculate_and_distribute_matching(self, self.admin, round_id, now)
                      .s.campaigns[cid].matching_amount

\* the estimate is the distribution while no campaign of the round is Failed,
\* and the matching_amount once the round is distributed
EstimateWithoutFailed ==
    /\ \A round_id \in Distributable(self) :
          Competing(self, round_id) = TaggedWith(self, round_id) =>
              \A cid \in TaggedWith(self, round_id) :
                  get_estimated_matching(self, cid)
                      = calculate_and_distribute_matching(self, self.admin, round_id, now)
                            .s.campaigns[cid].matching_amount
    /\ \A round_id \in DOMAIN self.matching_rounds :
          self.matching_rounds[round_id].distributed =>
              \A cid \in TaggedWith(self, round_id) :
                  get_estimated_matching(self, cid) = self.campaigns[cid].matching_amount

\* a round ready for distribution has a campaign with donations and no Failed one
EstimateWithoutFailedHappens ==
    \E round_id \in Distributable(self) :
        /\ Competing(self, round_id) = TaggedWith(self, round_id)
        /\ \E cid \in TaggedWith(self, round_id) : get_estimated_matching(self, cid) > 0

----------------------------------------------------------------------------
(* The quadratic-funding score *)

\* donations at and next to the squares of 1000, 1414 and 2000
ScoreAmounts == {1000000, 1002000, 1999395, 1999396, 3999999, 4000000}

NextScore ==
    \/ \E caller \in Owners, title_len \in TitleLens, desc_len \in DescLens,
          off \in DeadlineOffsets, beneficiary \in PlainBeneficiaries :
          CreateCampaign(caller, title_len, desc_len, ApprovalGoal, now + off, beneficiary)
    \/ \E caller \in Donors, cid \in CampaignIds, amount \in ScoreAmounts :
          Donate(caller, cid, amount)

SpecScore == Init /\ [][NextScore]_vars

\* the arguments sqrt is checked on one by one
SqrtRange == 1000

\* r is the floor of the square root of n, and no other number is
IsFloorRoot(r, n) ==
    /\ r * r <= n /\ n < (r + 1) * (r + 1)
    /\ \A q \in 0..(r + 1) : (q * q <= n /\ n < (q + 1) * (q + 1)) => q = r

SqrtIsFloorRoot == \A n \in 0..SqrtRange : IsFloorRoot(sqrt(n), n)

\* the largest root looked for: the root of the largest amount of ScoreAmounts
RootCap == 2000

FloorRoot(n) == CHOOSE r \in 0..RootCap : r * r <= n /\ n < (r + 1) * (r + 1)

RECURSIVE SumOfFloorRoots(_)
SumOfFloorRoots(ds) ==
    IF ds = <<>> THEN 0 ELSE FloorRoot(Head(ds).amount) + SumOfFloorRoots(Tail(ds))

\* a ledger of donations of 100 and 400 for campaign 0
SmallLedger(s) ==
    [s EXCEPT !.campaign_donations =
        Insert(@, 0, <<[donor |-> "bob", amount |-> 100],
                       [donor |-> "carol", amount |-> 400]>>)]

ScoreOfSmallLedger ==
    /\ SumOfSquareRoots(SmallLedger(self).campaign_donations[0]) = 10 + 20
    /\ calculate_qf_score(SmallLedger(self), 0) = 900

ScoreOfLedger ==
    \A cid \in AnyIds :
        LET ds == Donations(self, cid)
        IN /\ \A i \in 1..Len(ds) : IsFloorRoot(sqrt(ds[i].amount), ds[i].amount)
           /\ calculate_qf_score(self, cid) = SumOfFloorRoots(ds) * SumOfFloorRoots(ds)

\* C30: sqrt(n) is, for every n of the range checked, the one r with
\* r*r <= n < (r+1)*(r+1), its iteration ending with that value; the score of
\* a campaign is the square of the sum of the sqrt of the amounts in its
\* ledger, 0 for a campaign without a ledger; donations of 100 and 400 give
\* 10 + 20 = 30 and the score 900.
C30_ScoreIsSquareOfRootSum == SqrtIsFloorRoot /\ ScoreOfSmallLedger /\ ScoreOfLedger

\* a ledger of two donations whose roots are 1413 and 1999
C30_Witness ==
    \E cid \in DOMAIN self.campaign_donations :
        /\ Len(self.campaign_donations[cid]) = 2
        /\ { self.campaign_donations[cid][i].amount : i \in 1..2 } = {1999395, 3999999}
        /\ calculate_qf_score(self, cid) = (1413 + 1999) * (1413 + 1999)

----------------------------------------------------------------------------
(* Milestone lists *)

OneMilestone(desc_len, percentage) ==
    [desc_len |-> desc_len, percentage |-> percentage, days |-> 1]

\* milestone lists with a sum other than 10000, among them the empty list
BadSums ==
    { <<>>,
      <<OneMilestone(5, 6000), OneMilestone(5, 3999)>>,
      <<OneMilestone(5, 6000), OneMilestone(5, 4001)>>,
      <<OneMilestone(5, 0)>> }

\* milestone lists of sum 10000 with an empty or too long description
BadDescriptions ==
    { <<OneMilestone(0, 10000)>>,
      <<OneMilestone(5, 6000), OneMilestone(MAX_MILESTONE_DESCRIPTION_LEN + 1, 4000)>> }

\* milestone lists add_milestones accepts: the longest description, one
\* milestone of the whole, a milestone of nothing
GoodMilestones ==
    MilestoneInputs \cup
    { <<OneMilestone(MAX_MILESTONE_DESCRIPTION_LEN, 10000)>>,
      <<OneMilestone(1, 10000), OneMilestone(1, 0)>> }

AddMilestonesValidates ==
    \A caller \in Accounts, cid \in AnyIds :
        /\ \A data \in BadSums \cup BadDescriptions \cup GoodMilestones :
              LET o == add_milestones(self, caller, cid, data, now)
                  allowed == /\ cid \in DOMAIN self.campaigns
                             /\ caller = self.campaigns[cid].owner
                             /\ self.campaigns[cid].state = "Active"
                             /\ data \in GoodMilestones
              IN /\ ~o.susp
                 /\ ~allowed => o.res # "Ok" /\ o.s = self
                 /\ allowed =>
                       /\ o.res = "Ok"
                       /\ Len(o.s.campaigns[cid].milestones) = Len(data)
                       /\ \A i \in 1..Len(data) :
                             o.s.campaigns[cid].milestones[i]
                                 = NewMilestone(data[i], now)
                       /\ o.s.campaigns[cid].uses_milestones
                       /\ o.s = InsertCampaign(self, cid, o.s.campaigns[cid])
        /\ \A data \in BadSums :
              cid \in DOMAIN self.campaigns /\ caller = self.campaigns[cid].owner
              /\ self.campaigns[cid].state = "Active"
                  => add_milestones(self, caller, cid, data, now).res = "InvalidGoal"
        /\ \A data \in BadDescriptions :
              cid \in DOMAIN self.campaigns /\ caller = self.campaigns[cid].owner
              /\ self.campaigns[cid].state = "Active"
                  => add_milestones(self, caller, cid, data, now).res = "InvalidDescription"

PercentagesSumToWhole ==
    \A cid \in DOMAIN self.campaigns :
        self.campaigns[cid].milestones # <<>> =>
            SumPercentages(self.campaigns[cid].milestones) = BASIS_POINTS

\* what add_milestones sets of a campaign's milestones
MilestoneTerms(campaign) ==
    [i \in 1..Len(campaign.milestones) |->
        [ percentage |-> campaign.milestones[i].percentage,
          deadline |-> campaign.milestones[i].deadline ]]

\* the milestone list of a campaign that is not Active stays as it is
MilestonesFixedOnceInactive ==
    \A cid \in DOMAIN self.campaigns :
        self.campaigns[cid].state # "Active" =>
            /\ MilestoneTerms(self'.campaigns[cid]) = MilestoneTerms(self.campaigns[cid])
            /\ self'.campaigns[cid].uses_milestones = self.campaigns[cid].uses_milestones

NextReplace ==
    \/ \E caller \in Owners, title_len \in TitleLens, desc_len \in DescLens,
          goal \in Goals, off \in DeadlineOffsets, beneficiary \in Beneficiaries :
          CreateCampaign(caller, title_len, desc_len, goal, now + off, beneficiary)
    \/ \E caller \in Donors, cid \in CampaignIds, amount \in Amounts :
          Donate(caller, cid, amount)
    \/ \E caller \in Accounts, cid \in CampaignIds : WithdrawFunds(caller, cid)
    \/ \E caller \in Accounts, cid \in CampaignIds, data \in GoodMilestones :
          AddMilestones(caller, cid, data)
    \/ \E caller \in Accounts, cid \in CampaignIds : CancelCampaign(caller, cid)
    \/ \E caller \in Accounts, cid \in CampaignIds : CancelByPayee(caller, cid)
    \/ ExternalReturn
    \/ \E t \in Instants(self) : Tick(t)

SpecReplace == Init /\ [][NextReplace]_vars

\* C31: every campaign with milestones has percentages summing to 10000;
\* add_milestones with another sum (the empty list too), with an empty or
\* over-200-character description, by a non-owner or on a campaign that is
\* not Active fails and changes nothing; once a campaign is not Active its
\* milestone list and its milestone-gated flag no longer change.
C31_MilestonesSumToWhole ==
    /\ [](AddMilestonesValidates /\ PercentagesSumToWhole)
    /\ [][MilestonesFixedOnceInactive]_vars

\* a campaign that has left Active keeps a list of two milestones
C31_Witness ==
    \E cid \in DOMAIN self.campaigns :
        /\ self.campaigns[cid].state # "Active"
        /\ Len(self.campaigns[cid].milestones) = 2

----------------------------------------------------------------------------
(* The NFT receipt of a donation *)

\* a minter with code and one without
NftContracts == {"carol", "bob"}

NextNft ==
    \/ \E caller \in Owners, title_len \in TitleLens, desc_len \in DescLens,
          goal \in Goals, off \in DeadlineOffsets, beneficiary \in PlainBeneficiaries :
          CreateCampaign(caller, title_len, desc_len, goal, now + off, beneficiary)
    \/ \E caller \in Accounts, nft_contract \in NftContracts :
          SetNftContract(caller, nft_contract)
    \/ \E caller \in Accounts, enabled \in BOOLEAN : SetNftEnabled(caller, enabled)
    \/ \E caller \in Donors, cid \in CampaignIds, amount \in Amounts :
          Donate(caller, cid, amount)
    \/ ExternalReturn
    \/ \E t \in Instants(self) : Tick(t)

SpecNft == Init /\ [][NextNft]_vars

Minting(s) == s.nft_enabled /\ s.nft_contract # NoAccount

\* what the claim calls the effects of a donation
DonationEffects(s) == [campaigns |-> s.campaigns, donations |-> s.campaign_donations]

MintFeeOk == <<TRUE, TRUE>>
MintFails == <<TRUE, FALSE>>

MintDecidesNothing ==
    Minting(self) =>
        \A caller \in Donors, cid \in AnyIds, amount \in AnyAmounts :
            LET minted == Returns(donate(self, caller, cid, amount, now), MintFeeOk)
                failed == Returns(donate(self, caller, cid, amount, now), MintFails)
                plain == Returns(donate([self EXCEPT !.nft_enabled = FALSE],
                                        caller, cid, amount, now), MintFeeOk)
            IN /\ ~minted.susp /\ ~failed.susp
               /\ minted.res = failed.res
               /\ minted.s = failed.s
               /\ minted.res = plain.res
               /\ DonationEffects(minted.s) = DonationEffects(plain.s)
               /\ minted.val = <<>>
               /\ failed.val # <<>> =>
                     /\ failed.val = <<"NftMintingFailed">>
                     /\ failed.res = "Ok"
                     /\ DonationEffects(failed.s) # DonationEffects(self)

\* the return of the mint call, whatever its outcome, only ends the donation
MintReturnsAlike ==
    stack # <<>> /\ Top.op = "donate_mint" /\ Len(stack') < Len(stack) =>
        self' = Unlock(self)

\* C32: with NFT minting enabled, donate returns the same result and has the
\* same effects on the campaign and its donation list whether the mint call
\* succeeds or fails, the same as without minting; the failure of the mint
\* shows in the NftMintingFailed event only.
C32_MintDecidesNothing == []MintDecidesNothing /\ [][MintReturnsAlike]_vars

\* a donation is recorded and its mint call is running
C32_Witness ==
    /\ stack # <<>>
    /\ Top.op = "donate_mint"
    /\ Minting(self)
    /\ Donations(self, Top.cid) # <<>>

----------------------------------------------------------------------------
(* Pagination *)

\* offsets and limits up to one beyond the largest count
PageOffsets == 0..(MaxBatchCampaigns + 1)
PageLimits == 0..(MaxBatchCampaigns + 1)

\* the entries of list at the positions [offset, min(offset + limit, count))
PageOf(list, offset, limit) ==
    SubSeq(list, offset + 1, Min(offset + limit, Len(list)))

DetailsPage(offset, limit) ==
    \A cid \in DOMAIN self.campaigns :
        LET r == get_campaign_details(self, cid, offset, limit)
        IN /\ r.res = "Some"
           /\ r.donations = PageOf(Donations(self, cid), offset, limit)
           /\ offset >= Len(Donations(self, cid)) => r.donations = <<>>
           /\ r.campaign = self.campaigns[cid]
           /\ r.total_donations = Len(Donations(self, cid))

CampaignsPage(offset, limit) ==
    LET all == [i \in 1..self.campaign_count |-> self.campaigns[i - 1]]
    IN get_campaigns_paginated(self, offset, limit) = PageOf(all, offset, limit)

\* C33: for every offset and limit get_campaign_details returns the donations
\* at positions [offset, min(offset + limit, count)), none when offset >= count,
\* and get_campaigns_paginated the campaigns with ids in
\* [offset, min(offset + limit, campaign_count)); neither aborts.
C33_PagesAreClamped ==
    \A offset \in PageOffsets, limit \in PageLimits :
        DetailsPage(offset, limit) /\ CampaignsPage(offset, limit)

\* the part that holds: campaigns for every offset, donations for offsets up to
\* the count
PagesWithinCount ==
    \A offset \in PageOffsets, limit \in PageLimits :
        /\ CampaignsPage(offset, limit)
        /\ \A cid \in DOMAIN self.campaigns :
              get_campaign_details(self, cid, offset, limit).res
                  = IF offset > Len(Donations(self, cid)) THEN "Panic" ELSE "Some"
        /\ (\A cid \in DOMAIN self.campaigns : offset <= Len(Donations(self, cid)))
              => DetailsPage(offset, limit)

\* two campaigns, one of them with two donations
PagesWithinCountHappens ==
    /\ self.campaign_count = 2
    /\ \E cid \in DOMAIN self.campaigns : Len(Donations(self, cid)) = 2

----------------------------------------------------------------------------
(* Solvency *)

\* what the contract kept of the donations to a campaign, with its matching
Retained(s, cid) ==
    s.campaigns[cid].raised - FeesTaken(Donations(s, cid))
        + s.campaigns[cid].matching_amount

\* a transfer of that kind has been made for the campaign
Paid(kind, cid) == \E k \in DOMAIN transfers : k.kind = kind /\ k.cid = cid

OnlyPaidWithinRetained ==
    \A cid \in DOMAIN self.campaigns : PaidOut(cid) <= Retained(self, cid)

NeverRefundedAndWithdrawn ==
    \A cid \in DOMAIN self.campaigns : ~(Paid("refund", cid) /\ Paid("withdraw", cid))

NeverWithdrawnAndReleased ==
    \A cid \in DOMAIN self.campaigns : ~(Paid("withdraw", cid) /\ Paid("milestone", cid))

\* C34: what has been paid out for a campaign in refunds, withdrawals and
\* milestone releases never exceeds raised minus the fees taken at donation
\* time plus matching_amount; no campaign is both refunded and withdrawn,
\* none both withdrawn and released through milestones.
C34_CampaignsSolvent ==
    OnlyPaidWithinRetained /\ NeverRefundedAndWithdrawn /\ NeverWithdrawnAndReleased

----------------------------------------------------------------------------
(* Milestone-gated payout *)

Unreleased(campaign) ==
    \E i \in 1..Len(campaign.milestones) : ~campaign.milestones[i].released

\* C35: withdraw_funds transfers nothing to the beneficiary of a campaign in
\* milestone-gated mode while one of its milestones is unreleased.
C35_GatedFundsNotWithdrawn ==
    \A cid \in DOMAIN self.campaigns, caller \in Accounts :
        self.campaigns[cid].uses_milestones /\ Unreleased(self.campaigns[cid]) =>
            LET o == withdraw_funds(self, caller, cid, now)
            IN ~(o.susp /\ o.frame.to = self.campaigns[cid].beneficiary
                        /\ o.frame.value > 0)

----------------------------------------------------------------------------
(* Rejected donations and the fee *)

\* the fee transfers among the successful external calls of a message
FeesSent(paid) ==
    { i \in 1..Len(paid) : paid[i].op = "donate" /\ paid[i].value > 0 }

\* C36: a donate call that returns an error has written nothing and has
\* transferred no fee to the treasury.
C36_RejectedDonationCommitsNothing ==
    \A donor \in Accounts, cid \in AnyIds, amount \in AnyAmounts :
        LET r == Run(donate(self, donor, cid, amount, now), <<TRUE, TRUE>>, <<>>, now, FALSE)
        IN r.o.res # "Ok" => r.o.s = self /\ FeesSent(r.paid) = {}

\* the part that holds: a donation rejected for its amount or under the lock
\* sends no fee and writes nothing
EarlyRejectionsSendNoFee ==
    \A donor \in Accounts, cid \in AnyIds, amount \in AnyAmounts :
        LET r == Run(donate(self, donor, cid, amount, now), <<TRUE, TRUE>>, <<>>, now, FALSE)
        IN r.o.res \in {"InvalidDonationAmount", "ReentrantCall"} =>
              r.o.s = self /\ FeesSent(r.paid) = {}

----------------------------------------------------------------------------
(* Milestone release *)

AllReleased(campaign) == \A i \in 1..Len(campaign.milestones) : campaign.milestones[i].released

ReleasePaysShare ==
    \A caller \in Accounts, cid \in DOMAIN self.campaigns, idx \in MilestoneIndexes :
        LET o == release_milestone_funds(self, caller, cid, idx)
            r == Run(o, <<TRUE, TRUE>>, <<>>, now, FALSE)
            campaign == self.campaigns[cid]
        IN r.o.res = "Ok" =>
              LET share == MulDiv(campaign.raised + campaign.matching_amount,
                                  campaign.milestones[idx + 1].percentage, BASIS_POINTS)
                  after == r.o.s.campaigns[cid]
              IN /\ IF share > 0
                    THEN /\ Len(r.paid) = 1
                         /\ r.paid[1].to = campaign.beneficiary
                         /\ r.paid[1].value = share
                    ELSE r.paid = <<>>
                 /\ after.milestones[idx + 1].released
                 /\ ~after.milestones[idx + 1].voting_active
                 /\ \A i \in 1..Len(campaign.milestones) :
                       i # idx + 1 => after.milestones[i] = campaign.milestones[i]
                 /\ after.state = IF AllReleased(after) THEN "Withdrawn" ELSE campaign.state

NoReleasedMilestoneVotes ==
    \A cid \in DOMAIN self.campaigns :
        \A i \in 1..Len(self.campaigns[cid].milestones) :
            ~(self.campaigns[cid].milestones[i].released
              /\ self.campaigns[cid].milestones[i].voting_active)

\* C37: a successful release_milestone_funds transfers
\* floor((raised + matching_amount) * percentage / 10000) to the beneficiary,
\* sets released, clears voting_active and makes the campaign Withdrawn exactly
\* when all its milestones are then released; no milestone is ever both
\* released and voting_active.
C37_ReleaseClosesMilestone == ReleasePaysShare /\ NoReleasedMilestoneVotes

----------------------------------------------------------------------------
(* Withdrawal of a campaign without funds *)

\* the campaign the claim is about: not Successful, past its deadline, without
\* raised funds or matching
EmptyAndPast(s, cid, t) ==
    /\ s.campaigns[cid].state \notin {"Successful", "Withdrawn"}
    /\ t > s.campaigns[cid].deadline
    /\ s.campaigns[cid].raised = 0
    /\ s.campaigns[cid].matching_amount = 0

EmptyWithdrawalFails ==
    \A cid \in DOMAIN self.campaigns, caller \in Accounts :
        LET campaign == self.campaigns[cid]
            o == withdraw_funds(self, caller, cid, now)
        IN /\ ~self.locked
           /\ caller = campaign.owner \/ caller = self.admin
           /\ EmptyAndPast(self, cid, now)
           => /\ ~o.susp
              /\ o.res = "Ok"
              /\ o.s = InsertCampaign(self, cid, [campaign EXCEPT !.state = "Failed"])

\* a Failed campaign without funds stays as it is
EmptyFailedStays ==
    \A cid \in DOMAIN self.campaigns :
        /\ self.campaigns[cid].state = "Failed"
        /\ self.campaigns[cid].raised = 0
        /\ self.campaigns[cid].matching_amount = 0
        => self'.campaigns[cid].state = "Failed"

----------------------------------------------------------------------------
(* Unique donors *)

DonorsOf(s, cid) == { Donations(s, cid)[i].donor : i \in 1..Len(Donations(s, cid)) }

\* C39: get_unique_donor_count returns the number of distinct donor accounts
\* in the campaign's ledger.
C39_CountsDistinctDonors ==
    \A cid \in AnyIds : get_unique_donor_count(self, cid) = Cardinality(DonorsOf(self, cid))

\* what it returns: the number of donations in the ledger
CountsDonations ==
    \A cid \in AnyIds : get_unique_donor_count(self, cid) = Len(Donations(self, cid))

\* a ledger with two donations of one donor
CountsDonationsHappens ==
    \E cid \in DOMAIN self.campaigns :
        Len(Donations(self, cid)) = 2 /\ Cardinality(DonorsOf(self, cid)) = 1

----------------------------------------------------------------------------
(* Vote tallies *)

RECURSIVE SumOfWeights(_, _)
SumOfWeights(s, keys) ==
    IF keys = {} THEN 0
    ELSE LET k == CHOOSE x \in keys : TRUE
         IN s.milestone_votes[k] + SumOfWeights(s, keys \ {k})

\* the vote records of milestone idx of the campaign
VoteKeys(s, cid, idx) == { k \in DOMAIN s.milestone_votes : k[1] = cid /\ k[2] = idx }

Tally_(m) == m.votes_for + m.votes_against

TalliesMatchRecords ==
    \A cid \in DOMAIN self.campaigns :
        \A i \in 1..Len(self.campaigns[cid].milestones) :
            /\ Tally_(self.campaigns[cid].milestones[i])
                  = SumOfWeights(self, VoteKeys(self, cid, i - 1))
            /\ Tally_(self.campaigns[cid].milestones[i]) <= self.campaigns[cid].raised

\* the tallies of milestone i of the campaign, none when the list is shorter
TalliesAt(s, cid, i) ==
    IF i <= Len(s.campaigns[cid].milestones)
    THEN <<s.campaigns[cid].milestones[i].votes_for,
           s.campaigns[cid].milestones[i].votes_against>>
    ELSE <<0, 0>>

\* a tally that changes is changed by a vote that returns Ok, on a milestone
\* whose voting is active and which is not released
TalliesChangeByVote ==
    \A cid \in DOMAIN self.campaigns :
        \A i \in 1..Len(self.campaigns[cid].milestones) :
            LET m == self.campaigns[cid].milestones[i]
            IN TalliesAt(self', cid, i) # TalliesAt(self, cid, i) =>
                  /\ m.voting_active /\ ~m.released
                  /\ \E caller \in Accounts, approve \in BOOLEAN :
                        LET o == vote_on_milestone(self, caller, cid, i - 1, approve)
                        IN o.res = "Ok" /\ self' = o.s

\* what the code does keep: a tally is at most the sum of the milestone's
\* vote records, and that sum is at most the raised amount
TalliesWithinRecords ==
    \A cid \in DOMAIN self.campaigns :
        \A i \in 1..Len(self.campaigns[cid].milestones) :
            /\ Tally_(self.campaigns[cid].milestones[i])
                  <= SumOfWeights(self, VoteKeys(self, cid, i - 1))
            /\ SumOfWeights(self, VoteKeys(self, cid, i - 1)) <= self.campaigns[cid].raised

\* a tally has been written over while its vote record stays
TallyLostHappens ==
    \E cid \in DOMAIN self.campaigns :
        \E i \in 1..Len(self.campaigns[cid].milestones) :
            /\ VoteKeys(self, cid, i - 1) # {}
            /\ Tally_(self.campaigns[cid].milestones[i]) = 0

\* C40: for every milestone votes_for + votes_against is the sum of the
\* weights of its vote records and at most the campaign's raised amount;
\* tallies change only by a vote_on_milestone that returns Ok on a milestone
\* whose voting is active and which is not released.
C40_TalliesMatchVotes == []TalliesMatchRecords /\ [][TalliesChangeByVote]_vars

====
